---- MODULE Spec2Model ----
(***************************************************************************)
(* State-machine model of the email assistant pipeline                     *)
(* (kmicpaps/email_assistant, execution/*.py).                              *)
(*                                                                         *)
(* The stages are modelled each with its own specification:                *)
(*   SpecClassify     execution/categorize_emails.py                       *)
(*   SpecLabel        execution/apply_gmail_labels.py (+ fetch_emails.py)  *)
(*   SpecContext      execution/manage_client_context.py                   *)
(*   SpecExtract      execution/extract_invoice_data.py, run by            *)
(*                    execution/process_invoices_full.py                   *)
(*   SpecOrchestrate  execution/organize_emails.py                         *)
(*   SpecReport       execution/organize_emails.py, the final report       *)
(*   SpecStandalone   the __main__ blocks of the stages after categorize   *)
(*   SpecStore        execution/manage_client_context.py, the files        *)
(*   SpecSenders      execution/manage_client_context.py, one address      *)
(*                    under several From fields                            *)
(*   SpecDrafts       execution/generate_draft_responses.py after the      *)
(*                    context stage                                        *)
(* The inference providers and the mail store are external: every call to  *)
(* them is a nondeterministic choice over the outcomes they can produce.   *)
(***************************************************************************)
EXTENDS Integers, Sequences, FiniteSets, TLC

(***************************************************************************)
(* Bounds of the model                                                     *)
(***************************************************************************)
\* number of emails in the batch handed to categorize_emails
NumEmails == 2

\* number of messages in the mail store / in the classification artifact
NumMessages == 2

\* number of consecutive runs of the labeling stage, and of the context
\* stage
MaxRuns == 2

\* number of emails in the mailbox the context stage draws its batches from
NumCtxEmails == 4

\* total number of emails the context stage merges over all its runs
MaxMerges == 5

\* Python's None
None == "None"

\* d[key] = value
SetItem(d, key, value) == (key :> value) @@ d

(***************************************************************************)
(* categorize_emails.py                                                    *)
(***************************************************************************)
CATEGORIES ==
  {"advertising", "invoice", "important_update", "new_client_inquiry",
   "existing_client", "other"}

\* The text a provider answers with.  A text is its letters (core), whether
\* some letter is upper case, and whether it has surrounding whitespace.
\* "spam" is an answer outside the enumeration.
TokenCores == CATEGORIES \cup {"spam"}
RawTokens ==
  [core : TokenCores, upper : {FALSE}, padded : {FALSE}]
  \cup [core : {"invoice", "spam"}, upper : BOOLEAN, padded : BOOLEAN]

\* str.strip() and str.lower()
strip(tok) == [tok EXCEPT !.padded = FALSE]
lower(tok) == [tok EXCEPT !.upper = FALSE]

\* `category in CATEGORIES`: exact match with one of the keys
InCategories(tok) == ~tok.upper /\ ~tok.padded /\ tok.core \in CATEGORIES

\* What a provider call can do: answer with a text, or raise.
ProviderOutcomes ==
  [kind : {"ok"}, token : RawTokens] \cup {[kind |-> "exception"]}

\* no call was made
NoOutcome == [kind |-> "none"]

\* a provider function that accepts the answer without validating it
categorize_unvalidated(out) ==
  IF out.kind = "exception" THEN None ELSE lower(strip(out.token)).core

\* The value returned by categorize_with_openai for a provider outcome:
\* a member of CATEGORIES, or None when the call raised.
categorize_with_openai(out) ==
  IF out.kind = "exception" THEN None
  ELSE LET category == lower(strip(out.token))
       IN  IF ~InCategories(category) THEN "other" ELSE category.core

\* categorize_with_anthropic: the same prompt and validation, other client.
categorize_with_anthropic(out) ==
  IF out.kind = "exception" THEN None
  ELSE LET category == lower(strip(out.token))
       IN  IF ~InCategories(category) THEN "other" ELSE category.core

\* The lines printed by the two provider functions for an outcome.
ProviderPrints(name, id, out) ==
  IF out.kind = "exception"
    THEN <<[msg |-> "api_error", provider |-> name, id |-> id]>>
  ELSE IF ~InCategories(lower(strip(out.token)))
    THEN <<[msg |-> "invalid_category", provider |-> name, id |-> id]>>
  ELSE <<>>

\* a fallback that is also tried when the primary's answer was defaulted
FallbackOnOther(category) == category = None \/ category = "other"

\* categorize_emails, line 180: the fallback is tried when the primary
\* function returned None
FallbackNeeded(category) == category = None

\* a fallback that goes back to the primary provider
FallbackToPrimary(ua, akey, okey) ==
  IF ua /\ okey THEN "anthropic"
  ELSE IF ~ua /\ akey THEN "openai"
  ELSE None

\* categorize_emails, lines 182-185: the provider the fallback goes to, None
\* when its key is not configured
FallbackProvider(ua, akey, okey) ==
  IF ua /\ okey THEN "openai"
  ELSE IF ~ua /\ akey THEN "anthropic"
  ELSE None

\* a last resort that leaves the category unset
LastResortUnset(category) == category

\* categorize_emails, lines 188-190: the last resort
LastResort(category) == IF category = None THEN "other" ELSE category

VARIABLES
  c_pc,            \* position in categorize_emails: start, loop, done, error
  use_anthropic,   \* argument / local of categorize_emails
  anthropic_key,   \* TRUE iff ANTHROPIC_API_KEY is set
  openai_key,      \* TRUE iff OPENAI_API_KEY is set
  c_i,             \* index of the next email of the batch
  categorized,     \* the output list: records [id, category]
  calls,           \* calls[i]: the providers called for email i, in order
  primary_out,     \* primary_out[i]: what the primary provider did for email i
  secondary_out,   \* secondary_out[i]: what the secondary did, None if not called
  printed          \* console output of the stage

cvars == <<c_pc, use_anthropic, anthropic_key, openai_key, c_i, categorized,
           calls, primary_out, secondary_out, printed>>

VARIABLES
  id_scheme,        \* how the mail store forms label ids: "opaque" or "path"
  store_labels,     \* mail store: the label paths that exist
  store_msg_labels, \* mail store: the label ids each message carries
  artifact,         \* categorization_results.json: [id, labelIds, category]
  run,              \* number of the labeling run (0 before the first)
  l_pc,             \* position in apply_gmail_labels: idle, setup, loop, done
  label_ids,        \* local label_ids: category -> label id (<<>> if absent)
  label_counts,     \* local label_counts: category -> number applied
  l_errors,         \* local errors
  l_i,              \* index of the next email of the artifact
  modify_calls,     \* messages().modify calls issued in the current run
  label_calls,      \* get_or_create_label calls of the current run
  store_label_count,\* mail store: the number of labels of each path
  labelled_before   \* messages labelled by a modify call of an earlier run

lvars == <<id_scheme, store_labels, store_msg_labels, artifact, run, l_pc,
           label_ids, label_counts, l_errors, l_i, modify_calls, label_calls,
           store_label_count, labelled_before>>

VARIABLES
  ctx_store,         \* client_contexts/<sender>/context.json, by sender key
  client_emails,     \* local client_emails of the current run
  batch,             \* the emails the current run was started with
  x_pc,              \* position in manage_client_contexts
  x_i,               \* index of the next client email
  x_run,             \* number of the run of the context stage
  contexts_created,  \* local counter
  contexts_updated,  \* local counter
  merges,            \* emails merged so far, over all runs
  prev_run,          \* the last finished run: its batch and the store it left
  last_out           \* what the provider did in the last merge

xvars == <<ctx_store, client_emails, batch, x_pc, x_i, x_run,
           contexts_created, contexts_updated, merges, prev_run, last_out>>

VARIABLES
  e_pc,              \* position in extract_invoice_data.py: idle, start, loop,
                     \*   save, done, error
  e_api_key,         \* TRUE iff OPENAI_API_KEY is set for the extraction
  pdf_files,         \* local pdf_files: the documents found, by number
  e_i,               \* index of the next document
  invoices_data,     \* local invoices_data: the extraction results
  e_errors,          \* local errors: the error records
  doc_text,          \* doc_text[i]: what extract_text_from_pdf returned
  llm_calls,         \* llm_calls[i]: provider calls issued for document i
  llm_out,           \* llm_out[i]: what the provider did for document i
  threshold,         \* argument of generate_review_queue, in hundredths
  review_queue,      \* local review_queue of generate_review_queue
  review_file,       \* .tmp/invoice_review_queue.json
  full_pc            \* position in main of process_invoices_full.py

evars == <<e_pc, e_api_key, pdf_files, e_i, invoices_data, e_errors, doc_text,
           llm_calls, llm_out, threshold, review_queue, review_file, full_pc>>

VARIABLES
  o_pc,              \* position in main of organize_emails.py
  argc,              \* len(sys.argv) of the orchestration command
  started,           \* the stages started so far, in order
  stage_event,       \* stage_event[s]: what happened inside stage s
  stage_ok,          \* stage_ok[s]: what run_script returned for stage s
  exit_code,         \* exit code of the orchestration command, -1 if running
  tmp_files,         \* the files of .tmp that the stages write, by name
  report             \* .tmp/processing_report.json as written by this run

ovars == <<o_pc, argc, started, stage_event, stage_ok, exit_code, tmp_files,
           report>>

VARIABLES
  s_script,          \* the downstream script that was started on its own
  s_results_exist,   \* TRUE iff .tmp/categorization_results.json exists
  s_pos,             \* the next operation of the script
  s_effects,         \* the operations performed after the load, in order
  s_exit             \* exit code of the script, -1 while it runs

svars == <<s_script, s_results_exist, s_pos, s_effects, s_exit>>

\* the context files on disk, and a save followed by a load
VARIABLES
  ctx_files,   \* the text of each client_contexts/<sender>/context.json
  f_saved,     \* the record the last save_context call was given
  f_loaded     \* what load_context returned right after it

fvars == <<ctx_files, f_saved, f_loaded>>

VARIABLES
  d_pc,              \* position in generate_draft_responses.py
  d_openai_key,      \* OPENAI_API_KEY is set for the draft stage
  d_client_emails,   \* local client_emails of generate_draft_responses
  d_i,               \* index of the next email of d_client_emails
  drafts,            \* local drafts: the drafts generated so far
  d_warnings         \* ids of the emails the no-context warning was printed for

dvars == <<d_pc, d_openai_key, d_client_emails, d_i, drafts, d_warnings>>

vars == <<cvars, lvars, xvars, evars, ovars, svars, fvars, dvars>>

\* the batch, as fetch_emails.py (lines 161-172) caches it: emails are
\* identified by their position and have no category yet
emails ==
  [i \in 1..NumEmails |->
     [id |-> i, labelIds |-> {"INBOX"}, subject |-> "(No Subject)"]]

\* an assignment that builds the classified email of the id alone
set_category_of_id(email, category) ==
  [id |-> email.id, category |-> category]

\* categorize_emails, line 192: email['category'] = category
set_category(email, category) == SetItem(email, "category", category)

CallProvider(name, out) ==
  IF name = "anthropic" THEN categorize_with_anthropic(out)
                        ELSE categorize_with_openai(out)

\* The outcomes of the secondary provider that matter to one iteration: all
\* of them when it is called, NoOutcome when it is not.
SecondaryOutcomes(ua, akey, okey, pout) ==
  LET primary == IF ua THEN "anthropic" ELSE "openai"
  IN  IF FallbackNeeded(CallProvider(primary, pout))
         /\ FallbackProvider(ua, akey, okey) # None
        THEN ProviderOutcomes ELSE {NoOutcome}

\* the labeling stage is not part of this specification
IdleLabel ==
  /\ id_scheme = "opaque"
  /\ store_labels = {}
  /\ store_msg_labels = <<>>
  /\ artifact = <<>>
  /\ run = 0
  /\ l_pc = "idle"
  /\ label_ids = <<>>
  /\ label_counts = <<>>
  /\ l_errors = <<>>
  /\ l_i = 1
  /\ modify_calls = <<>>
  /\ label_calls = <<>>
  /\ store_label_count = <<>>
  /\ labelled_before = {}

\* the context stage is not part of this specification
IdleContext ==
  /\ ctx_store = <<>>
  /\ client_emails = <<>>
  /\ batch = <<>>
  /\ x_pc = "idle"
  /\ x_i = 1
  /\ x_run = 0
  /\ contexts_created = 0
  /\ contexts_updated = 0
  /\ merges = 0
  /\ prev_run = <<>>
  /\ last_out = NoOutcome

\* the extraction stage is not part of this specification
IdleExtract ==
  /\ e_pc = "idle"
  /\ e_api_key = FALSE
  /\ pdf_files = <<>>
  /\ e_i = 1
  /\ invoices_data = <<>>
  /\ e_errors = <<>>
  /\ doc_text = <<>>
  /\ llm_calls = <<>>
  /\ llm_out = <<>>
  /\ threshold = 0
  /\ review_queue = <<>>
  /\ review_file = <<>>
  /\ full_pc = "idle"

\* the orchestrator is not part of this specification
IdleOrchestrate ==
  /\ o_pc = "idle"
  /\ argc = 0
  /\ started = <<>>
  /\ stage_event = <<>>
  /\ stage_ok = <<>>
  /\ exit_code = -1
  /\ tmp_files = <<>>
  /\ report = <<>>

\* no downstream script is started on its own in this specification
IdleFiles ==
  /\ ctx_files = <<>>
  /\ f_saved = <<>>
  /\ f_loaded = <<>>

\* the draft stage is not part of this specification
IdleDrafts ==
  /\ d_pc = "idle"
  /\ d_openai_key = FALSE
  /\ d_client_emails = <<>>
  /\ d_i = 1
  /\ drafts = <<>>
  /\ d_warnings = <<>>

IdleStandalone ==
  /\ s_script = "none"
  /\ s_results_exist = FALSE
  /\ s_pos = 1
  /\ s_effects = <<>>
  /\ s_exit = -1

InitClassify ==
  /\ IdleStandalone
  /\ IdleFiles
  /\ IdleDrafts
  /\ IdleLabel
  /\ IdleContext
  /\ IdleExtract
  /\ IdleOrchestrate
  /\ c_pc = "start"
  /\ use_anthropic \in BOOLEAN
  /\ anthropic_key \in BOOLEAN
  /\ openai_key \in BOOLEAN
  /\ c_i = 1
  /\ categorized = <<>>
  /\ calls = [i \in 1..NumEmails |-> <<>>]
  /\ primary_out = [i \in 1..NumEmails |-> NoOutcome]
  /\ secondary_out = [i \in 1..NumEmails |-> NoOutcome]
  /\ printed = <<>>

\* categorize_emails, lines 157-168: key checks before the loop
categorize_emails_begin ==
  /\ c_pc = "start"
  /\ LET ua == use_anthropic /\ anthropic_key
     IN  /\ use_anthropic' = ua
         /\ printed' = IF use_anthropic /\ ~anthropic_key
                         THEN Append(printed, [msg |-> "no_anthropic_key"])
                         ELSE printed
         /\ c_pc' = IF ~ua /\ ~openai_key THEN "error" ELSE "loop"
  /\ UNCHANGED <<anthropic_key, openai_key, c_i, categorized, calls,
                 primary_out, secondary_out, lvars, xvars, evars, ovars,
                 svars, fvars, dvars>>

\* categorize_emails, lines 170-193: one iteration of the loop
categorize_emails_step ==
  /\ c_pc = "loop"
  /\ c_i <= NumEmails
  /\ \E pout \in ProviderOutcomes :
     \E sout \in SecondaryOutcomes(use_anthropic, anthropic_key, openai_key, pout) :
       LET email     == emails[c_i]
           id        == email.id
           primary   == IF use_anthropic THEN "anthropic" ELSE "openai"
           category1 == CallProvider(primary, pout)
           fb        == IF FallbackNeeded(category1)
                          THEN FallbackProvider(use_anthropic, anthropic_key,
                                                openai_key)
                          ELSE None
           category2 == IF fb # None THEN CallProvider(fb, sout) ELSE category1
           category3 == LastResort(category2)
           prints ==
             ProviderPrints(primary, id, pout)
             \o (IF FallbackNeeded(category1)
                   THEN <<[msg |-> "primary_failed", id |-> id]>> ELSE <<>>)
             \o (IF fb # None THEN ProviderPrints(fb, id, sout) ELSE <<>>)
             \o (IF category2 = None
                   THEN <<[msg |-> "could_not_categorize", id |-> id]>>
                   ELSE <<>>)
       IN  /\ categorized' = Append(categorized,
                                    set_category(email, category3))
           /\ calls' = [calls EXCEPT ![c_i] =
                          <<primary>> \o (IF fb # None THEN <<fb>> ELSE <<>>)]
           /\ primary_out' = [primary_out EXCEPT ![c_i] = pout]
           /\ secondary_out' = [secondary_out EXCEPT ![c_i] = sout]
           /\ printed' = printed \o prints
  /\ c_i' = c_i + 1
  /\ UNCHANGED <<c_pc, use_anthropic, anthropic_key, openai_key, lvars, xvars, evars, ovars,
                 svars, fvars, dvars>>

\* categorize_emails, lines 195-196: the loop is over, the list is returned
categorize_emails_return ==
  /\ c_pc = "loop"
  /\ c_i > NumEmails
  /\ c_pc' = "done"
  /\ printed' = Append(printed, [msg |-> "success", count |-> Len(categorized)])
  /\ UNCHANGED <<use_anthropic, anthropic_key, openai_key, c_i, categorized,
                 calls, primary_out, secondary_out, lvars, xvars, evars, ovars,
                 svars, fvars, dvars>>

NextClassify ==
  \/ categorize_emails_begin
  \/ categorize_emails_step
  \/ categorize_emails_return

SpecClassify == InitClassify /\ [][NextClassify]_vars

(***************************************************************************)
(* Properties of the classifier                                            *)
(***************************************************************************)
\* the emails classified so far
Classified == 1..Len(categorized)

Primary == IF use_anthropic THEN "anthropic" ELSE "openai"
Secondary == IF use_anthropic THEN "openai" ELSE "anthropic"
SecondaryConfigured == IF use_anthropic THEN openai_key ELSE anthropic_key

\* the provider raised
Failed(out) == out.kind = "exception"
\* the provider answered with a text that is not a category after
\* normalisation
InvalidToken(out) == out.kind = "ok" /\ ~InCategories(lower(strip(out.token)))
SecondaryCalled(i) == Len(calls[i]) >= 2 /\ calls[i][2] = Secondary
Reported(i) ==
  \E k \in 1..Len(printed) :
    printed[k] = [msg |-> "could_not_categorize", id |-> emails[i].id]

\* C1: every email of the output carries a category of the 6-member
\* enumeration, whatever the two providers did (valid answer, invalid answer,
\* exception); when the stage has finished the output holds the whole batch.
C1_CategoryInEnumeration ==
  /\ \A i \in Classified : categorized[i].category \in CATEGORIES
  /\ c_pc = "done" => Len(categorized) = NumEmails

\* C1 witness: the stage finished, an email's primary answered outside the
\* enumeration and an email had a provider raise.
C1_Witness ==
  /\ c_pc = "done"
  /\ \E i \in Classified : InvalidToken(primary_out[i])
  /\ \E i \in Classified : Failed(primary_out[i])

\* C2 as claimed (read with a configured secondary): the secondary is
\* consulted whenever the primary fails or answers outside the enumeration,
\* and the primary's result is final only when its answer is a member.
C2_Original ==
  \A i \in Classified :
    SecondaryConfigured =>
      (SecondaryCalled(i) <=>
         (Failed(primary_out[i]) \/ InvalidToken(primary_out[i])))

\* C2 amended: the secondary is consulted exactly when the primary call
\* raised and the secondary's key is configured; a primary answer outside the
\* enumeration is replaced by 'other' and accepted as final without
\* consulting the secondary.
C2_FallbackOnFailureOnly ==
  \A i \in Classified :
    /\ SecondaryCalled(i) <=> (Failed(primary_out[i]) /\ SecondaryConfigured)
    /\ InvalidToken(primary_out[i]) =>
         /\ calls[i] = <<Primary>>
         /\ categorized[i].category = "other"

\* C2 witness: one email whose primary answered outside the enumeration and
\* one whose primary raised with the secondary consulted.
C2_Witness ==
  /\ \E i \in Classified : InvalidToken(primary_out[i])
  /\ \E i \in Classified : Failed(primary_out[i]) /\ SecondaryCalled(i)

\* C3: when the primary fails and the secondary fails too or is not
\* configured, the email's category is 'other', the event is printed, and the
\* rest of the batch is still classified.
C3_DefaultOther ==
  /\ \A i \in Classified :
       (Failed(primary_out[i])
          /\ (Failed(secondary_out[i]) \/ ~SecondaryConfigured))
       => /\ categorized[i].category = "other"
          /\ Reported(i)
  /\ c_pc \in {"loop", "done"} =>
       /\ Len(categorized) = c_i - 1
       /\ \A i \in Classified : categorized[i].id = emails[i].id
  /\ c_pc = "done" => Len(categorized) = NumEmails

\* C3 witness: the first email lost both providers, a later email was
\* classified by its primary, and the stage finished.
C3_Witness ==
  /\ c_pc = "done"
  /\ Failed(primary_out[1]) /\ Failed(secondary_out[1])
  /\ \E i \in Classified :
       i > 1 /\ primary_out[i].kind = "ok" /\ categorized[i].category = "invoice"

\* C4: per email at most two provider calls: the primary once, then at most
\* the secondary once; never the secondary first, never a provider twice.
C4_AtMostTwoCalls ==
  \A i \in 1..NumEmails :
    /\ Len(calls[i]) <= 2
    /\ Len(calls[i]) >= 1 => calls[i][1] = Primary
    /\ Len(calls[i]) = 2 => calls[i][2] = Secondary
    /\ i \in Classified <=> Len(calls[i]) >= 1

\* C4 witness: an email for which both providers were called.
C4_Witness ==
  \E i \in Classified : calls[i] = <<Primary, Secondary>>

(***************************************************************************)
(* apply_gmail_labels.py, with the mail store and the artifact it reads    *)
(***************************************************************************)
\* A label string is a sequence of chunks, so that `'Email-Assistant' in
\* label` can be told from equality and from a prefix.
NS == "Email-Assistant"

LABEL_MAP ==
  [c \in CATEGORIES |->
     CASE c = "advertising"        -> <<NS, "/Advertising">>
       [] c = "invoice"            -> <<NS, "/Invoice">>
       [] c = "important_update"   -> <<NS, "/Important-Update">>
       [] c = "new_client_inquiry" -> <<NS, "/New-Client">>
       [] c = "existing_client"    -> <<NS, "/Existing-Client">>
       [] c = "other"              -> <<NS, "/Other">>]

INBOX == <<"INBOX">>

\* The id the mail store gives the label of a path.  Ids are the store's
\* choice: an opaque token ("Label_" and a tail), or the path itself.
LabelIdFor(scheme, path) ==
  IF scheme = "opaque" THEN <<"Label_", path[2]>> ELSE path

\* `'Email-Assistant' in label`: substring test
Contains(label, chunk) == \E k \in 1..Len(label) : label[k] = chunk

\* a test for equality with the namespace instead of containment
HasAssistantLabelExact(existing_labels) ==
  \E label \in existing_labels : label = <<NS>>

\* apply_gmail_labels, lines 135-138
HasAssistantLabel(existing_labels) ==
  \E label \in existing_labels : Contains(label, NS)

\* email.get('category', 'other')
CategoryOf(email) ==
  IF "category" \in DOMAIN email THEN email.category ELSE "other"

\* the categories the emails of the modelled artifact carry
ArtifactCategories == {"invoice", "other"}

\* the sets of categories whose label lookup/creation raises HttpError in
\* one run: none, one, all
LabelFailureCases == {{}, {"invoice"}, CATEGORIES}

Messages == 1..NumMessages

\* fetch_emails, lines 161-172: the email object built from a message
\* (fields the labeling stage reads)
fetch_email(msg_labels, id) == [id |-> id, labelIds |-> msg_labels[id]]

\* the classifier is not part of this specification
IdleClassifyLocals ==
  /\ c_pc = "idle"
  /\ use_anthropic = FALSE
  /\ openai_key = FALSE
  /\ c_i = 1
  /\ categorized = <<>>
  /\ calls = <<>>
  /\ primary_out = <<>>
  /\ secondary_out = <<>>
  /\ printed = <<>>

IdleClassify == IdleClassifyLocals /\ anthropic_key = FALSE

\* The mail store when the batch was fetched: every message is in the inbox,
\* and message 1 may carry the invoice label of an earlier session.  The
\* artifact is the fetched batch with the categories added by the classifier.
InitLabel ==
  /\ IdleStandalone
  /\ IdleFiles
  /\ IdleDrafts
  /\ IdleClassify
  /\ IdleContext
  /\ IdleExtract
  /\ IdleOrchestrate
  /\ id_scheme \in {"opaque", "path"}
  /\ \E already \in {{}, {1}} :
       /\ store_labels = IF already = {} THEN {} ELSE {LABEL_MAP["invoice"]}
       /\ store_label_count =
            [c \in CATEGORIES |->
               IF c = "invoice" /\ already # {} THEN 1 ELSE 0]
       /\ store_msg_labels =
            [m \in Messages |->
               IF m \in already
                 THEN {INBOX, LabelIdFor(id_scheme, LABEL_MAP["invoice"])}
                 ELSE {INBOX}]
  /\ \E cat \in [Messages -> ArtifactCategories] :
       artifact = [m \in Messages |->
                     [id |-> m,
                      labelIds |-> fetch_email(store_msg_labels, m).labelIds,
                      category |-> cat[m]]]
  /\ run = 0
  /\ l_pc = "idle"
  /\ label_ids = [c \in CATEGORIES |-> <<>>]
  /\ label_counts = [c \in CATEGORIES |-> 0]
  /\ l_errors = <<>>
  /\ l_i = 1
  /\ modify_calls = <<>>
  /\ label_calls = <<>>
  /\ labelled_before = {}

\* the messages a successful modify call of the current run labelled
LabelledNow ==
  {modify_calls[k].email_id :
     k \in {j \in 1..Len(modify_calls) : modify_calls[j].ok}}

\* __main__, lines 191-196: a run of the stage starts; it loads the artifact
\* (the same file as the run before) and enters apply_gmail_labels
apply_gmail_labels_begin ==
  /\ l_pc \in {"idle", "done"}
  /\ run < MaxRuns
  /\ run' = run + 1
  /\ l_pc' = "setup"
  /\ labelled_before' = labelled_before \cup LabelledNow
  /\ modify_calls' = <<>>
  /\ label_calls' = <<>>
  /\ label_ids' = [c \in CATEGORIES |-> <<>>]
  /\ label_counts' = [c \in CATEGORIES |-> 0]
  /\ l_errors' = <<>>
  /\ l_i' = 1
  /\ UNCHANGED <<id_scheme, store_labels, store_msg_labels, artifact,
                 store_label_count, cvars, xvars, evars, ovars, svars, fvars, dvars>>

\* get_or_create_label, lines 56-84: the id of the label of a path, <<>>
\* (None) when the store raised HttpError
get_or_create_label(scheme, label_path, raises) ==
  IF raises THEN <<>> ELSE LabelIdFor(scheme, label_path)

\* the keys of LABEL_MAP in the order of the dict, lines 16-23
LABEL_MAP_KEYS ==
  <<"advertising", "invoice", "important_update", "new_client_inquiry",
    "existing_client", "other">>

\* a lookup that creates the label whether or not the store has it
creates_label_always(labels, label_path, raises) == ~raises

\* get_or_create_label, lines 56-76: labels().create is called, and
\* succeeds, when no listed label has the name of the path
creates_label(labels, label_path, raises) ==
  ~raises /\ label_path \notin labels

\* apply_gmail_labels, lines 113-126: label ids for all categories, one
\* get_or_create_label call for each key of LABEL_MAP; a label that does
\* not exist is created in the store
apply_gmail_labels_setup ==
  /\ l_pc = "setup"
  /\ \E failed \in LabelFailureCases :
       /\ label_ids' =
            [c \in CATEGORIES |->
               get_or_create_label(id_scheme, LABEL_MAP[c], c \in failed)]
       /\ store_labels' =
            store_labels \cup {LABEL_MAP[c] : c \in CATEGORIES \ failed}
       /\ label_calls' =
            [k \in 1..Len(LABEL_MAP_KEYS) |->
               LET c == LABEL_MAP_KEYS[k]
               IN  [category |-> c,
                    label_path |-> LABEL_MAP[c],
                    created |-> creates_label(store_labels, LABEL_MAP[c],
                                              c \in failed)]]
       /\ store_label_count' =
            [c \in CATEGORIES |->
               store_label_count[c]
                 + (IF creates_label(store_labels, LABEL_MAP[c], c \in failed)
                      THEN 1 ELSE 0)]
  /\ label_counts' = [c \in CATEGORIES |-> 0]
  /\ l_errors' = <<>>
  /\ l_pc' = "loop"
  /\ UNCHANGED <<id_scheme, store_msg_labels, artifact, run, l_i,
                 modify_calls, labelled_before, cvars, xvars, evars, ovars,
                 svars, fvars, dvars>>

\* a labeller that tries a failed modify call a second time
apply_label_to_email_retrying(email_id, label_id, success) ==
  IF success
    THEN <<[email_id |-> email_id, label_id |-> label_id, ok |-> TRUE]>>
    ELSE <<[email_id |-> email_id, label_id |-> label_id, ok |-> FALSE],
           [email_id |-> email_id, label_id |-> label_id, ok |-> FALSE]>>

\* apply_label_to_email, lines 86-99: the modify calls it issues
apply_label_to_email(email_id, label_id, success) ==
  <<[email_id |-> email_id, label_id |-> label_id, ok |-> success]>>

\* apply_gmail_labels, lines 128-157: one iteration of the loop, with
\* apply_label_to_email (lines 86-99) succeeding or raising HttpError
apply_gmail_labels_step ==
  /\ l_pc = "loop"
  /\ l_i <= Len(artifact)
  /\ LET email    == artifact[l_i]
         category == CategoryOf(email)
         label_id == label_ids[category]
     IN  IF HasAssistantLabel(email.labelIds)
           THEN UNCHANGED <<store_msg_labels, label_counts, l_errors,
                            modify_calls>>
         ELSE IF label_id = <<>>
           THEN UNCHANGED <<store_msg_labels, label_counts, l_errors,
                            modify_calls>>
         ELSE \E success \in BOOLEAN :
                /\ modify_calls' =
                     modify_calls
                       \o apply_label_to_email(email.id, label_id, success)
                /\ IF success
                     THEN /\ store_msg_labels' =
                               [store_msg_labels EXCEPT ![email.id] =
                                  @ \cup {label_id}]
                          /\ label_counts' =
                               [label_counts EXCEPT ![category] = @ + 1]
                          /\ UNCHANGED l_errors
                     ELSE /\ l_errors' =
                               Append(l_errors, [email_id |-> email.id,
                                                 category |-> category])
                          /\ UNCHANGED <<store_msg_labels, label_counts>>
  /\ l_i' = l_i + 1
  /\ UNCHANGED <<id_scheme, store_labels, artifact, run, l_pc, label_ids,
                 label_calls, store_label_count, labelled_before, cvars,
                 xvars, evars, ovars, svars, fvars, dvars>>

\* apply_gmail_labels, lines 159-168: the summary is returned
apply_gmail_labels_return ==
  /\ l_pc = "loop"
  /\ l_i > Len(artifact)
  /\ l_pc' = "done"
  /\ UNCHANGED <<id_scheme, store_labels, store_msg_labels, artifact, run,
                 label_ids, label_counts, l_errors, l_i, modify_calls,
                 label_calls, store_label_count, labelled_before, cvars,
                 xvars, evars, ovars, svars, fvars, dvars>>

NextLabel ==
  \/ apply_gmail_labels_begin
  \/ apply_gmail_labels_setup
  \/ apply_gmail_labels_step
  \/ apply_gmail_labels_return

SpecLabel == InitLabel /\ [][NextLabel]_vars

(***************************************************************************)
(* Properties of the labeling stage                                        *)
(***************************************************************************)
RECURSIVE SumOver(_, _)
SumOver(f, S) ==
  IF S = {} THEN 0
  ELSE LET x == CHOOSE y \in S : TRUE IN f[x] + SumOver(f, S \ {x})

\* the emails of the artifact the current run has been over
Labeled == IF l_pc \in {"loop", "done"} THEN 1..(l_i - 1) ELSE {}

\* the email record carries a label under the namespace prefix
CarriesNamespaceLabel(email) ==
  \E label \in email.labelIds : Len(label) >= 1 /\ label[1] = NS

ModifiedInRun(id) ==
  \E k \in 1..Len(modify_calls) : modify_calls[k].email_id = id
ErrorInRun(id) ==
  \E k \in 1..Len(l_errors) : l_errors[k].email_id = id

\* C5: idempotence of labeling.  A later run over the same artifact issues no
\* modify call for an email that an earlier run has labelled in the mail
\* store: such an email is skipped.
C5_SecondRunNoMutation ==
  run >= 2 =>
    \A k \in 1..Len(modify_calls) :
      modify_calls[k].email_id \notin labelled_before

FromField(display, core, upper, padded, bracket) ==
  [display |-> display,
   addr |-> [core |-> core, upper |-> upper, padded |-> padded],
   bracket |-> bracket]

\* The mailbox, in fetch order; a run of the stage gets a prefix of it.
Mailbox ==
  [k \in 1..NumCtxEmails |->
     CASE k = 1 -> [id |-> 1, date |-> 2, subject |-> "Quote",
                    category |-> "new_client_inquiry",
                    from |-> FromField("Alice", "a@x.com", FALSE, FALSE, TRUE)]
       [] k = 2 -> [id |-> 2, date |-> 1, subject |-> "Re: Quote",
                    category |-> "existing_client",
                    from |-> FromField("", "a@x.com", FALSE, FALSE, FALSE)]
       [] k = 3 -> [id |-> 3, date |-> 3, subject |-> "Re: Quote",
                    category |-> "existing_client",
                    from |-> FromField("ALICE", "a@x.com", TRUE, TRUE, TRUE)]
       [] k % 2 = 0 -> [id |-> k, date |-> k, subject |-> "Invoice",
                    category |-> "invoice",
                    from |-> FromField("Bob", "b@y.com", FALSE, FALSE, TRUE)]
       [] OTHER -> [id |-> k, date |-> k, subject |-> "Hello",
                    category |-> "existing_client",
                    from |-> FromField("Bob", "b@y.com", FALSE, FALSE, TRUE)]]

\* The text between the first '<' of a display name and the next '>', as a
\* one-element sequence; <<>> for a display name without such a pair.
DisplayAddr(display) ==
  IF display = "Billing <billing@acme.com>"
    THEN <<[core |-> "billing@acme.com", upper |-> FALSE, padded |-> FALSE]>>
    ELSE <<>>

\* extract_sender_email, lines 29-34: re.search takes the first text
\* between angle brackets of the field, which is the address unless the
\* display name has such a text itself; without brackets the whole field is
\* taken.  The text is stripped and lower-cased.
extract_sender_email(from_field) ==
  IF from_field.bracket /\ DisplayAddr(from_field.display) # <<>>
    THEN lower(strip(DisplayAddr(from_field.display)[1]))
    ELSE lower(strip(from_field.addr))

\* extract_sender_name, lines 36-42
extract_sender_name(from_field) ==
  IF from_field.bracket
    THEN IF from_field.display # "" THEN from_field.display ELSE "Unknown"
    ELSE "Unknown"

\* JSON values as Python sees them after json.loads
PyNull == [type |-> "null"]
PyNumber == [type |-> "number"]
PyList(items) == [type |-> "list", items |-> items]
PyStr(chars) == [type |-> "str", items |-> chars]
PyObject(obj) == [type |-> "object", obj |-> obj]

\* dict.get(key, default)
Get(d, key, default) == IF key \in DOMAIN d THEN d[key] ELSE default

\* `for x in v` raises TypeError unless v is a list or a string (a string
\* yields its characters)
Iterable(v) == v.type \in {"list", "str"}

\* What the provider call and json.loads of update_existing_context can
\* produce: the call raises, the text is not JSON, or a JSON value.
UpdateOutcomes ==
  {[kind |-> "exception"], [kind |-> "badjson"]}
  \cup [kind : {"json"},
        value : {PyList(<<>>),
                 PyObject([x \in {} |-> 0]),
                 PyObject([topic |-> "Bug report", key_points |-> <<"kp">>]),
                 PyObject([topic |-> "Bug report", key_points |-> <<"kp">>,
                           new_action_items |-> PyList(<<"Fix bug">>)]),
                 PyObject([topic |-> "Bug report", key_points |-> <<"kp">>,
                           new_action_items |-> PyNull]),
                 PyObject([topic |-> "Bug report", key_points |-> <<"kp">>,
                           new_action_items |-> PyNumber]),
                 PyObject([topic |-> "Bug report", key_points |-> <<"kp">>,
                           new_action_items |-> PyStr(<<"F">>)])}]

\* the same for create_new_context
CreateOutcomes ==
  {[kind |-> "exception"], [kind |-> "badjson"]}
  \cup [kind : {"json"},
        value : {PyList(<<>>),
                 PyObject([x \in {} |-> 0]),
                 PyObject([inquiry_type |-> "Website quote",
                           key_points |-> <<"kp">>,
                           project_summary |-> "Needs a website",
                           urgency |-> "high"])}]

\* the try block raises before it has changed anything: the call raised,
\* json.loads raised, or the value has no .get
RaisesEarly(out) == out.kind # "json" \/ out.value.type # "object"

\* a record that starts without action items
initial_action_items_none(urgency) == <<>>

\* create_new_context, lines 112-119 and 145-152: the action item a new
\* record starts with
initial_action_items(urgency) ==
  <<[description |-> "Respond to initial inquiry",
     status |-> "pending", urgency |-> urgency]>>

\* create_new_context, lines 55-157
create_new_context(email, out) ==
  LET sender_email == extract_sender_email(email.from)
      sender_name  == extract_sender_name(email.from)
  IN  IF RaisesEarly(out)
        THEN [client_email |-> sender_email,
              client_name |-> sender_name,
              first_contact |-> email.date,
              last_contact |-> email.date,
              project_summary |-> email.subject,
              inquiry_type |-> "General inquiry",
              status |-> "active",
              communications |->
                <<[email_id |-> email.id, date |-> email.date,
                   subject |-> email.subject, topic |-> "Initial contact",
                   key_points |-> <<>>]>>,
              action_items |-> initial_action_items("medium")]
      ELSE LET analysis == out.value.obj
           IN [client_email |-> sender_email,
               client_name |-> sender_name,
               first_contact |-> email.date,
               last_contact |-> email.date,
               project_summary |->
                 Get(analysis, "project_summary", "No summary available"),
               inquiry_type |-> Get(analysis, "inquiry_type", "General inquiry"),
               status |-> "active",
               communications |->
                 <<[email_id |-> email.id, date |-> email.date,
                    subject |-> email.subject,
                    topic |-> Get(analysis, "inquiry_type", "Initial contact"),
                    key_points |-> Get(analysis, "key_points", <<>>)]>>,
               action_items |->
                 initial_action_items(Get(analysis, "urgency", "medium"))]

\* an except branch that rebuilds the history from the new email alone
UpdateFallbackReset(context, email) ==
  [context EXCEPT
     !.communications =
        <<[email_id |-> email.id, date |-> email.date,
           subject |-> email.subject, topic |-> "Follow-up",
           key_points |-> <<>>]>>,
     !.last_contact = email.date]

\* an except branch that keeps the later of the two timestamps
UpdateFallbackMonotone(context, email) ==
  [context EXCEPT
     !.communications =
        Append(@, [email_id |-> email.id, date |-> email.date,
                   subject |-> email.subject, topic |-> "Follow-up",
                   key_points |-> <<>>]),
     !.last_contact = IF email.date > @ THEN email.date ELSE @]

\* an except branch that takes the new email for the first contact
UpdateFallbackFirstContact(context, email) ==
  [context EXCEPT
     !.communications =
        Append(@, [email_id |-> email.id, date |-> email.date,
                   subject |-> email.subject, topic |-> "Follow-up",
                   key_points |-> <<>>]),
     !.first_contact = email.date,
     !.last_contact = email.date]

\* an except branch that records the contact but no communication
UpdateFallbackNoAppend(context, email) ==
  [context EXCEPT !.last_contact = email.date]

\* update_existing_context, lines 228-240: the except branch, applied to the
\* context as the try block left it
UpdateFallback(context, email) ==
  [context EXCEPT
     !.communications =
        Append(@, [email_id |-> email.id, date |-> email.date,
                   subject |-> email.subject, topic |-> "Follow-up",
                   key_points |-> <<>>]),
     !.last_contact = email.date]

\* update_existing_context, lines 159-240.  The try block appends the new
\* communication (line 208) before it iterates new_action_items (line 211);
\* when that iteration raises, the except branch works on the context that
\* already has the communication.
update_existing_context(context, email, out) ==
  IF RaisesEarly(out) THEN UpdateFallback(context, email)
  ELSE
    LET analysis == out.value.obj
        new_comm == [email_id |-> email.id, date |-> email.date,
                     subject |-> email.subject,
                     topic |-> Get(analysis, "topic", "Follow-up"),
                     key_points |-> Get(analysis, "key_points", <<>>)]
        appended == [context EXCEPT !.communications = Append(@, new_comm)]
        new_action_items == Get(analysis, "new_action_items", PyList(<<>>))
    IN  IF ~Iterable(new_action_items) THEN UpdateFallback(appended, email)
        ELSE [appended EXCEPT
                !.action_items =
                   @ \o [j \in 1..Len(new_action_items.items) |->
                           [description |-> new_action_items.items[j],
                            status |-> "pending", urgency |-> "medium"]],
                !.last_contact = email.date]

\* load_context, lines 44-53, as the test `if context:` sees it
HasContext(store, sender_email) == sender_email \in DOMAIN store

\* a store of one file that every save writes
save_context_single_file(store, context) ==
  IF DOMAIN store = {}
    THEN [k \in {context.client_email} |-> context]
    ELSE [k \in DOMAIN store |-> context]

\* save_context, lines 242-251, and load_context, lines 44-53, as the
\* stage sees them: the store holds the record of each sender's file, a
\* save replaces the record of the sender and leaves the others alone
save_context(store, context) ==
  [k \in DOMAIN store \cup {context.client_email} |->
     IF k = context.client_email THEN context ELSE store[k]]

\* a test that takes invoices for client emails too
IsClientEmailOrInvoice(e) ==
  e.category \in {"new_client_inquiry", "existing_client", "invoice"}

\* manage_client_contexts, lines 269-272
IsClientEmail(e) ==
  e.category \in {"new_client_inquiry", "existing_client"}

\* a filter that hands the newest client email to the loop first
filter_client_emails_newest_first(all_emails) ==
  LET kept == SelectSeq(all_emails, IsClientEmail)
  IN  [k \in 1..Len(kept) |-> kept[Len(kept) + 1 - k]]

\* manage_client_contexts, lines 268-272: the list comprehension keeps the
\* client emails in the order of the artifact
filter_client_emails(all_emails) == SelectSeq(all_emails, IsClientEmail)

InitContext ==
  /\ IdleStandalone
  /\ IdleFiles
  /\ IdleDrafts
  /\ IdleClassifyLocals
  /\ anthropic_key \in BOOLEAN
  /\ IdleLabel
  /\ IdleExtract
  /\ IdleOrchestrate
  /\ ctx_store = <<>>
  /\ client_emails = <<>>
  /\ batch = <<>>
  /\ x_pc = "idle"
  /\ x_i = 1
  /\ x_run = 0
  /\ contexts_created = 0
  /\ contexts_updated = 0
  /\ merges = 0
  /\ prev_run = <<>>
  /\ last_out = NoOutcome

\* __main__ and manage_client_contexts, lines 263-277: a run starts with the
\* emails of the artifact and filters the client emails
manage_client_contexts_begin ==
  /\ x_pc \in {"idle", "done"}
  /\ merges < MaxMerges
  /\ x_run < MaxRuns
  /\ \E n \in 1..NumCtxEmails :
       /\ batch' = SubSeq(Mailbox, 1, n)
       /\ client_emails' =
            IF anthropic_key
              THEN filter_client_emails(SubSeq(Mailbox, 1, n))
              ELSE <<>>
  /\ x_run' = x_run + 1
  /\ x_pc' = IF anthropic_key THEN "loop" ELSE "error"
  /\ x_i' = 1
  /\ contexts_created' = 0
  /\ contexts_updated' = 0
  /\ prev_run' = IF x_pc = "done"
                   THEN <<[batch |-> batch, store |-> ctx_store]>>
                   ELSE prev_run
  /\ UNCHANGED <<ctx_store, merges, last_out, cvars, lvars, evars, ovars,
                 svars, fvars, dvars>>

\* What the file system does to save_context (lines 242-251): the record is
\* written, or makedirs / open raises OSError.
SaveOutcomes == {"written", "OSError"}

\* manage_client_contexts, lines 279-297: one iteration of the loop.  An
\* OSError of save_context is caught nowhere: it leaves the function after
\* the counter was incremented, with the store as it was.
manage_client_contexts_step ==
  /\ x_pc = "loop"
  /\ x_i <= Len(client_emails)
  /\ merges < MaxMerges
  /\ \E saved \in SaveOutcomes :
       LET email == client_emails[x_i]
           sender_email == extract_sender_email(email.from)
           exists == HasContext(ctx_store, sender_email)
       IN  /\ contexts_updated' = contexts_updated + (IF exists THEN 1 ELSE 0)
           /\ contexts_created' = contexts_created + (IF exists THEN 0 ELSE 1)
           /\ IF saved = "OSError"
                THEN /\ x_pc' = "error"
                     /\ UNCHANGED <<ctx_store, last_out, x_i, merges>>
                ELSE /\ \E out \in (IF exists THEN UpdateOutcomes
                                               ELSE CreateOutcomes) :
                          /\ ctx_store' =
                               save_context(ctx_store,
                                 IF exists
                                   THEN update_existing_context(
                                          ctx_store[sender_email], email, out)
                                   ELSE create_new_context(email, out))
                          /\ last_out' = out
                     /\ x_i' = x_i + 1
                     /\ merges' = merges + 1
                     /\ UNCHANGED x_pc
  /\ UNCHANGED <<client_emails, batch, x_run, prev_run, cvars, lvars, evars,
                 ovars, svars, fvars, dvars>>

\* manage_client_contexts, lines 299-305: the summary is returned
manage_client_contexts_return ==
  /\ x_pc = "loop"
  /\ x_i > Len(client_emails)
  /\ x_pc' = "done"
  /\ UNCHANGED <<ctx_store, client_emails, batch, x_i, x_run,
                 contexts_created, contexts_updated, merges, prev_run,
                 last_out, cvars, lvars, evars, ovars, svars, fvars, dvars>>

NextContext ==
  \/ manage_client_contexts_begin
  \/ manage_client_contexts_step
  \/ manage_client_contexts_return

SpecContext == InitContext /\ [][NextContext]_vars

(***************************************************************************)
(* Properties of the context stage                                         *)
(***************************************************************************)
IsPrefix(s, t) == Len(s) <= Len(t) /\ SubSeq(t, 1, Len(s)) = s

EmailIds(comms) == {comms[k].email_id : k \in 1..Len(comms)}

\* the email the next iteration of the loop merges, and its store key
NextEmail == client_emails[x_i]
NextKey == extract_sender_email(NextEmail.from)

\* this step is an iteration of the loop that updates an existing record
UpdateStep ==
  /\ x_pc = "loop"
  /\ x_i <= Len(client_emails)
  /\ x_i' = x_i + 1
  /\ HasContext(ctx_store, NextKey)

\* C7: append-only store.  Every step leaves every stored record in the
\* store, and its communications and action_items before the step are a
\* prefix of those after the step.
C7_AppendOnly ==
  [][\A k \in DOMAIN ctx_store :
       /\ k \in DOMAIN ctx_store'
       /\ IsPrefix(ctx_store[k].communications, ctx_store'[k].communications)
       /\ IsPrefix(ctx_store[k].action_items, ctx_store'[k].action_items)]_vars

\* C7 witness: a record that was created and then updated on the failure
\* path (a Follow-up communication without key points) and on the success
\* path (a communication with the provider's topic and a new action item).
C7_Witness ==
  \E k \in DOMAIN ctx_store :
    LET c == ctx_store[k] IN
      /\ Len(c.communications) >= 3
      /\ \E j \in 2..Len(c.communications) :
           c.communications[j].topic = "Follow-up"
      /\ \E j \in 2..Len(c.communications) :
           c.communications[j].topic = "Bug report"
      /\ Len(c.action_items) >= 2

\* C8: a run over [e1, e2] followed by a run over [e1, e2, e3] leaves the
\* sender's communications equal to those the first run left with exactly
\* one record, for e3, appended.
C8_OneRecordAppended ==
  (/\ x_pc = "done"
   /\ prev_run # <<>>
   /\ NumCtxEmails >= 3
   /\ prev_run[1].batch = SubSeq(Mailbox, 1, 2)
   /\ batch = SubSeq(Mailbox, 1, 3))
  => LET key    == extract_sender_email(Mailbox[1].from)
         first  == prev_run[1].store[key].communications
         second == ctx_store[key].communications
     IN  /\ IsPrefix(first, second)
         /\ Len(second) = Len(first) + 1
         /\ second[Len(second)].email_id = Mailbox[3].id

\* C9: repeated runs produce no duplicate history: a run adds no
\* communication for an email id that the sender's record already held when
\* the run before it finished.
C9_NoDuplicateHistory ==
  prev_run # <<>> =>
    \A k \in DOMAIN prev_run[1].store :
      LET before == prev_run[1].store[k].communications
          now    == ctx_store[k].communications
      IN  \A j \in (Len(before) + 1)..Len(now) :
            now[j].email_id \notin EmailIds(before)

\* C10: an update of an existing record with one email appends exactly one
\* communication record, the one for that email, whatever the provider
\* returned.
C10_OneCommunicationPerUpdate ==
  [][UpdateStep =>
       LET before == ctx_store[NextKey].communications
           after  == ctx_store'[NextKey].communications
       IN  /\ Len(after) = Len(before) + 1
           /\ after[Len(after)].email_id = NextEmail.id]_vars

\* this step is an iteration of the loop: one email is merged
MergeStep ==
  /\ x_pc = "loop"
  /\ x_i <= Len(client_emails)
  /\ x_i' = x_i + 1

\* C11: last_contact of a stored record never decreases from one step to
\* the next.
C11_LastContactMonotone ==
  [][\A k \in DOMAIN ctx_store :
       ctx_store'[k].last_contact >= ctx_store[k].last_contact]_vars

\* C12: after every merge, creation or update, last_contact of the sender's
\* record is the date of the email just merged, whatever it was before.
C12_LastContactIsEmailDate ==
  [][MergeStep => ctx_store'[NextKey].last_contact = NextEmail.date]_vars

\* C12 witness: a record updated with an email older than its last contact,
\* so that last_contact went back behind first_contact.
C12_Witness ==
  \E k \in DOMAIN ctx_store :
    /\ Len(ctx_store[k].communications) >= 2
    /\ ctx_store[k].last_contact < ctx_store[k].first_contact

\* C13: from an empty store, a run that has merged the first two emails of
\* the sender leaves a record with exactly these two communications in
\* order, first_contact the first email's date and last_contact the second's.
C13_TwoEmailsScenario ==
  (x_run = 1 /\ x_pc = "loop" /\ x_i = 3 /\ merges = 2)
  => LET c == ctx_store[extract_sender_email(Mailbox[1].from)]
     IN  /\ Len(c.communications) = 2
         /\ c.communications[1].email_id = Mailbox[1].id
         /\ c.communications[2].email_id = Mailbox[2].id
         /\ c.first_contact = Mailbox[1].date
         /\ c.last_contact = Mailbox[2].date

\* C14: synthesis failure never blocks persistence.  Every merge saves a
\* record for the sender whose last communication is the one for the merged
\* email; when the provider raised or its output was unusable, that
\* communication holds the envelope fields and no inferred topic or key
\* points.  A finished run has done so for every client email of its batch.
C14_PersistenceNeverBlocked ==
  /\ [](x_pc = "done" =>
          \A j \in 1..Len(client_emails) :
            LET key == extract_sender_email(client_emails[j].from)
            IN  /\ key \in DOMAIN ctx_store
                /\ client_emails[j].id
                     \in EmailIds(ctx_store[key].communications))
  /\ [][MergeStep =>
          /\ NextKey \in DOMAIN ctx_store'
          /\ LET c    == ctx_store'[NextKey].communications
                 last == c[Len(c)]
             IN  /\ last.email_id = NextEmail.id
                 /\ last.date = NextEmail.date
                 /\ last.subject = NextEmail.subject
                 /\ RaisesEarly(last_out') =>
                      /\ last.topic \in {"Follow-up", "Initial contact"}
                      /\ last.key_points = <<>>]_vars

\* C14 witness: a finished run whose last merge updated a record although
\* the provider call raised.
C14_Witness ==
  /\ x_pc = "done"
  /\ last_out.kind = "exception"
  /\ \E k \in DOMAIN ctx_store : Len(ctx_store[k].communications) >= 2

(***************************************************************************)
(* extract_invoice_data.py                                                 *)
(***************************************************************************)
\* number of PDF documents found in the invoice directory
MaxPdfs == 2

\* process_invoice_pdfs, line 165: len(text.strip()) < 50
MinTextLen == 50

\* extract_invoice_data_with_llm, line 55: text[:4000]
SampleLen == 4000

\* extract_invoice_data_with_llm, line 99: "5 fields total"
FieldsTotal == 5

\* generate_review_queue, line 242: threshold=0.7, in hundredths
DefaultThreshold == 70

\* the keys of the JSON format the prompt asks for, lines 59-63
REQUIRED_FIELDS == {"date", "sender", "invoice_number", "amount", "currency"}

\* What extract_text_from_pdf returns: None when reading the document
\* raised, otherwise the joined page texts.  A text is its length and the
\* length of text.strip().
NoText == [absent |-> TRUE, len |-> 0, stripped |-> 0]
Text(len, stripped) == [absent |-> FALSE, len |-> len, stripped |-> stripped]

\* The texts a document can yield: unreadable, no pages, white space only,
\* one character short, exactly the minimum, longer than the sample.
Texts ==
  {NoText, Text(0, 0), Text(60, 0), Text(49, 49), Text(50, 50),
   Text(5000, 5000)}

\* a test that measures the text before stripping it
InsufficientUnstripped(text) ==
  text.absent \/ text.len = 0 \/ text.len < MinTextLen

\* process_invoice_pdfs, line 165: not text or len(text.strip()) < 50
Insufficient(text) ==
  text.absent \/ text.len = 0 \/ text.stripped < MinTextLen

\* The JSON objects the provider answers with; JSON null is None, and every
\* other value is written as the string of its JSON text.
ObjFull ==
  [date |-> "2024-01-15", sender |-> "Anthropic, PBC",
   invoice_number |-> "INV-1", amount |-> "230.00", currency |-> "EUR"]
ObjSenderOnly ==
  [date |-> None, sender |-> "Acme Corp.", invoice_number |-> None,
   amount |-> None, currency |-> None]
ObjMissingKeys == [sender |-> "ACME corp", amount |-> "12.50"]
ObjNoSender ==
  [date |-> "2024-02-01", sender |-> None, invoice_number |-> "7",
   amount |-> "99.00", currency |-> "USD"]
ObjExtraKey ==
  [date |-> "2024-01-15", sender |-> "Anthropic, PBC",
   invoice_number |-> "INV-1", amount |-> "230.00", currency |-> "EUR",
   notes |-> "paid"]
ObjOnlyExtraKey ==
  [date |-> None, sender |-> None, invoice_number |-> None,
   amount |-> None, currency |-> None, notes |-> "scanned receipt"]
ObjEmpty == [k \in {} |-> None]

Objects ==
  {ObjFull, ObjSenderOnly, ObjMissingKeys, ObjNoSender, ObjExtraKey,
   ObjOnlyExtraKey, ObjEmpty}

\* The text of a provider answer is a sequence of pieces: a markdown fence,
\* a fence with the json tag, prose, or the text of one JSON value.
Fence == [type |-> "fence"]
FenceJson == [type |-> "fence_json"]
Prose == [type |-> "prose"]
JsonObject(obj) == [type |-> "json", py |-> "dict", value |-> obj]
JsonArray == [type |-> "json", py |-> "list", value |-> <<>>]

\* What client.chat.completions.create can do (lines 80-85): raise, or
\* answer with a text.
LlmOutcomes ==
  {[kind |-> "exception"]}
    \cup {[kind |-> "response", content |-> c] :
            c \in {<<JsonObject(o)>> : o \in Objects}
                    \cup {<<FenceJson, JsonObject(ObjFull), Fence>>,
                          <<Prose, FenceJson, JsonObject(ObjSenderOnly),
                            Fence, Prose>>,
                          <<Fence, JsonObject(ObjNoSender), Fence>>,
                          <<Prose, JsonObject(ObjFull)>>,
                          <<FenceJson, Prose, Fence>>,
                          <<Prose>>,
                          <<JsonArray>>}}

\* the tests of lines 90 and 92: is one of these fences in json_text (the
\* tagged fence contains the plain one)
HasFence(content, types) ==
  \E i \in 1..Len(content) : content[i].type \in types

\* json_text.split(marker)[1].split(fence)[0]: what follows the first marker, up
\* to the next fence of either kind
Fenced(content, types) ==
  LET first == CHOOSE i \in 1..Len(content) :
                 /\ content[i].type \in types
                 /\ \A j \in 1..(i - 1) : content[j].type \notin types
      rest  == SubSeq(content, first + 1, Len(content))
      stops == {j \in 1..Len(rest) : rest[j].type \in {"fence", "fence_json"}}
      stop  == IF stops = {} THEN Len(rest) + 1
               ELSE CHOOSE j \in stops : \A k \in stops : j <= k
  IN  SubSeq(rest, 1, stop - 1)

\* extract_invoice_data_with_llm, lines 90-93
unfence(content) ==
  IF HasFence(content, {"fence_json"}) THEN Fenced(content, {"fence_json"})
  ELSE IF HasFence(content, {"fence", "fence_json"})
         THEN Fenced(content, {"fence", "fence_json"})
         ELSE content

\* json.loads, line 95: the text must be one JSON value and nothing else
JSONDecodeError == [type |-> "JSONDecodeError"]
json_loads(content) ==
  IF Len(content) = 1 /\ content[1].type = "json" THEN content[1]
  ELSE JSONDecodeError

\* extract_invoice_data_with_llm, line 98
fields_found(data) == Cardinality({k \in DOMAIN data : data[k] # None})

\* line 99 and round(confidence, 2) of line 101, in hundredths
Confidence(data) == (fields_found(data) * 100) \div FieldsTotal

\* a function that accepts an answer it cannot parse as an empty object
extract_invoice_data_lenient(text, out) ==
  LET sample == IF text.len > SampleLen THEN SampleLen ELSE text.len
  IN  IF out.kind = "exception"
        THEN [ok |-> FALSE, print |-> "LLM API error", calls |-> <<sample>>]
        ELSE LET parsed == json_loads(unfence(out.content))
                 data   == IF parsed.type = "json" /\ parsed.py = "dict"
                             THEN parsed.value ELSE ObjEmpty
             IN  [ok |-> TRUE,
                  data |-> SetItem(data, "confidence", Confidence(data)),
                  calls |-> <<sample>>]

\* extract_invoice_data_with_llm, lines 50-111.  The result is the returned
\* dict (ok), or None with what was printed; calls are the provider calls
\* issued, each with the length of the text sample it sent.  A returned dict
\* holds the confidence key, so (not invoice_data) is ~ok.
extract_invoice_data_with_llm(text, out) ==
  LET sample == IF text.len > SampleLen THEN SampleLen ELSE text.len
  IN  IF out.kind = "exception"
        THEN [ok |-> FALSE, print |-> "LLM API error", calls |-> <<sample>>]
        ELSE LET parsed == json_loads(unfence(out.content))
             IN  IF parsed.type = "JSONDecodeError"
                   THEN [ok |-> FALSE, print |-> "JSON parse error",
                         calls |-> <<sample>>]
                   ELSE IF parsed.py # "dict"
                     \* data.values() raises AttributeError (line 98)
                     THEN [ok |-> FALSE, print |-> "LLM API error",
                           calls |-> <<sample>>]
                     ELSE [ok |-> TRUE,
                           data |-> SetItem(parsed.value, "confidence",
                                            Confidence(parsed.value)),
                           calls |-> <<sample>>]

\* re.sub and strip of lines 119-120 (every run of other characters
\* becomes one underscore, underscores at the ends are dropped):
\* the runs of letters and digits of the lowered name, joined by underscores.  A
\* normalized name is the sequence of these runs.
AlnumRuns(sender) ==
  CASE sender = "Anthropic, PBC" -> <<"anthropic", "pbc">>
    [] sender = "Acme Corp."     -> <<"acme", "corp">>
    [] sender = "ACME corp"      -> <<"acme", "corp">>
    [] OTHER                     -> <<>>

\* normalize_sender_name, lines 113-130
normalize_sender_name(sender) ==
  IF sender = None \/ sender = "" THEN <<"unknown">>
  ELSE LET normalized == AlnumRuns(sender)
       IN  CASE normalized = <<"anthropic", "pbc">>      -> <<"anthropic">>
             [] normalized = <<"google", "workspace">>   -> <<"google">>
             [] normalized = <<"loom", "inc">>           -> <<"loom">>
             [] normalized = <<"apify", "technologies">> -> <<"apify">>
             [] OTHER                                    -> normalized

\* metadata that names the normalized sender only of a result with a sender
WithMetadataSenderOnly(invoice_data, filename) ==
  LET named == SetItem(invoice_data, "filename", filename)
      sender == Get(named, "sender", None)
  IN  IF sender = None THEN named
      ELSE SetItem(named, "sender_normalized", normalize_sender_name(sender))

\* process_invoice_pdfs, lines 194-206: the metadata added to a result
\* (the paths follow the file name, the time stamp is the wall clock)
WithMetadata(invoice_data, filename) ==
  LET named == SetItem(invoice_data, "filename", filename)
      sender == Get(named, "sender", None)
  IN  SetItem(named, "sender_normalized", normalize_sender_name(sender))

\* a queue that also takes the results at the threshold
generate_review_queue_inclusive(data, thr) ==
  SelectSeq(data, LAMBDA inv : Get(inv, "confidence", 0) <= thr)

\* generate_review_queue, lines 244-247
generate_review_queue(data, thr) ==
  SelectSeq(data, LAMBDA inv : Get(inv, "confidence", 0) < thr)

\* a review artifact left by an earlier run of the stage
StaleReview ==
  [count |-> 1,
   invoices |-> <<WithMetadata(SetItem(ObjSenderOnly, "confidence", 20), 9)>>]

\* The stage is started on a directory of 0..MaxPdfs documents; the
\* threshold is the default or the next confidence above it.
InitExtract ==
  /\ IdleStandalone
  /\ IdleFiles
  /\ IdleDrafts
  /\ IdleClassify
  /\ IdleLabel
  /\ IdleContext
  /\ IdleOrchestrate
  /\ e_pc = "start"
  /\ e_api_key \in BOOLEAN
  /\ \E n \in 0..MaxPdfs : pdf_files = [i \in 1..n |-> i]
  /\ e_i = 1
  /\ invoices_data = <<>>
  /\ e_errors = <<>>
  /\ doc_text = <<>>
  /\ llm_calls = <<>>
  /\ llm_out = <<>>
  /\ threshold \in {DefaultThreshold, DefaultThreshold + 10}
  /\ review_queue = <<>>
  /\ review_file \in {<<>>, <<StaleReview>>}
  /\ full_pc = "extract"

\* process_invoice_pdfs, lines 136-156, and line 273 of __main__: without
\* the key the function raises; without documents it returns [] and the
\* unpacking of line 273 raises.
process_invoice_pdfs_begin ==
  /\ e_pc = "start"
  /\ e_pc' = IF ~e_api_key \/ Len(pdf_files) = 0 THEN "error" ELSE "loop"
  /\ UNCHANGED <<e_api_key, pdf_files, e_i, invoices_data, e_errors,
                 doc_text, llm_calls, llm_out, threshold, review_queue,
                 review_file, full_pc, cvars, lvars, xvars, ovars, svars,
                 fvars, dvars>>

\* process_invoice_pdfs, lines 155-213: one document
process_invoice_pdfs_step ==
  /\ e_pc = "loop"
  /\ e_i <= Len(pdf_files)
  /\ \E text \in Texts :
       \E out \in (IF Insufficient(text) THEN {NoOutcome} ELSE LlmOutcomes) :
         LET filename == pdf_files[e_i]
             r == extract_invoice_data_with_llm(text, out)
         IN  /\ doc_text' = Append(doc_text, text)
             /\ llm_out' = Append(llm_out, out)
             /\ IF Insufficient(text)
                  THEN /\ e_errors' = Append(e_errors,
                            [filename |-> filename,
                             error |->
                               "Insufficient text extracted - may need OCR"])
                       /\ llm_calls' = Append(llm_calls, <<>>)
                       /\ UNCHANGED invoices_data
                  ELSE /\ llm_calls' = Append(llm_calls, r.calls)
                       /\ IF ~r.ok
                            THEN /\ e_errors' = Append(e_errors,
                                      [filename |-> filename,
                                       error |-> "LLM extraction failed"])
                                 /\ UNCHANGED invoices_data
                            ELSE /\ invoices_data' =
                                      Append(invoices_data,
                                             WithMetadata(r.data, filename))
                                 /\ UNCHANGED e_errors
  /\ e_i' = e_i + 1
  /\ UNCHANGED <<e_pc, e_api_key, pdf_files, threshold, review_queue,
                 review_file, full_pc, cvars, lvars, xvars, ovars, svars,
                 fvars, dvars>>

\* process_invoice_pdfs, line 215
process_invoice_pdfs_return ==
  /\ e_pc = "loop"
  /\ e_i > Len(pdf_files)
  /\ e_pc' = "save"
  /\ UNCHANGED <<e_api_key, pdf_files, e_i, invoices_data, e_errors,
                 doc_text, llm_calls, llm_out, threshold, review_queue,
                 review_file, full_pc, cvars, lvars, xvars, ovars, svars,
                 fvars, dvars>>

\* __main__, lines 276-278: the metadata and the error log are the two
\* lists as they stand; generate_review_queue (lines 242-259) writes its
\* file only when the queue is not empty.
main_save ==
  /\ e_pc = "save"
  /\ LET queue == generate_review_queue(invoices_data, threshold)
     IN  /\ review_queue' = queue
         /\ review_file' =
              IF queue # <<>>
                THEN <<[count |-> Len(queue), invoices |-> queue]>>
                ELSE review_file
  /\ e_pc' = "done"
  /\ UNCHANGED <<e_api_key, pdf_files, e_i, invoices_data, e_errors,
                 doc_text, llm_calls, llm_out, threshold, full_pc, cvars,
                 lvars, xvars, ovars, svars, fvars, dvars>>

\* extract_invoice_data.py as a process: an exception that leaves the
\* script ends it with a non-zero code
extract_invoice_data_exit(pc) == IF pc = "error" THEN 1 ELSE 0

\* process_invoices_full.py, run_script (lines 18-24): success is the exit
\* code 0
run_script_success(returncode) == returncode = 0

\* process_invoices_full.py, main, lines 39-43: the extraction script has
\* ended; without success the workflow exits with code 1
process_invoices_full_extract ==
  /\ full_pc = "extract"
  /\ e_pc \in {"done", "error"}
  /\ full_pc' = IF run_script_success(extract_invoice_data_exit(e_pc))
                  THEN "organize"
                  ELSE "failed"
  /\ UNCHANGED <<e_pc, e_api_key, pdf_files, e_i, invoices_data, e_errors,
                 doc_text, llm_calls, llm_out, threshold, review_queue,
                 review_file, cvars, lvars, xvars, ovars, svars, fvars, dvars>>

\* process_invoices_full.py, main, lines 45-51: the organization script is
\* run, and the workflow completes whatever it returned
process_invoices_full_organize ==
  /\ full_pc = "organize"
  /\ \E success \in BOOLEAN :
       full_pc' = IF success THEN "complete" ELSE "complete_with_issues"
  /\ UNCHANGED <<e_pc, e_api_key, pdf_files, e_i, invoices_data, e_errors,
                 doc_text, llm_calls, llm_out, threshold, review_queue,
                 review_file, cvars, lvars, xvars, ovars, svars, fvars, dvars>>

NextExtract ==
  \/ process_invoice_pdfs_begin
  \/ process_invoice_pdfs_step
  \/ process_invoice_pdfs_return
  \/ main_save
  \/ process_invoices_full_extract
  \/ process_invoices_full_organize

SpecExtract == InitExtract /\ [][NextExtract]_vars

(***************************************************************************)
(* Properties of the extraction stage                                      *)
(***************************************************************************)
\* the required fields a result holds with a value other than null
NonNullRequired(r) ==
  {k \in REQUIRED_FIELDS \cap DOMAIN r : r[k] # None}

\* the results and the error records of document i
ResultsOf(i) ==
  {j \in 1..Len(invoices_data) : invoices_data[j].filename = pdf_files[i]}
ErrorsOf(i) ==
  {j \in 1..Len(e_errors) : e_errors[j].filename = pdf_files[i]}

\* the provider answered for document i and json.loads rejected the answer
ParseFailed(i) ==
  /\ llm_out[i].kind = "response"
  /\ json_loads(unfence(llm_out[i].content)).type = "JSONDecodeError"

\* the text of document i is absent or shorter than the minimum
TextRejected(i) ==
  doc_text[i].absent \/ doc_text[i].stripped < MinTextLen

\* C15: every extraction result has a confidence between 0 and 1 that is
\* the number of its non-null required fields divided by 5 (in hundredths:
\* between 0 and 100, and 5 * confidence = 100 * that number).
C15_ConfidenceIsRequiredFraction ==
  \A i \in 1..Len(invoices_data) :
    LET r == invoices_data[i]
    IN  /\ r.confidence \in 0..100
        /\ r.confidence * FieldsTotal = Cardinality(NonNullRequired(r)) * 100

\* the step of __main__ that builds the review queue
ReviewStep == e_pc = "save" /\ e_pc' = "done"

\* the positions of the results below the threshold, and the j-th of them
BelowThreshold == {i \in 1..Len(invoices_data) :
                     invoices_data[i].confidence < threshold}
NthBelow(j) ==
  CHOOSE i \in BelowThreshold :
    Cardinality({k \in BelowThreshold : k <= i}) = j

\* C16: building the review queue leaves the results as they are, and the
\* queue is exactly the results whose confidence is strictly below the
\* threshold, unaltered and in their original order; results at or above
\* the threshold are not in it, a result of confidence 0.2 is in it, and a
\* queue that is not empty is what the review artifact holds.
C16_ReviewQueueIsPartition ==
  [][ReviewStep =>
       /\ invoices_data' = invoices_data
       /\ Len(review_queue') = Cardinality(BelowThreshold)
       /\ \A j \in 1..Len(review_queue') :
            review_queue'[j] = invoices_data[NthBelow(j)]
       /\ \A i \in 1..Len(invoices_data) :
            /\ invoices_data[i].confidence >= threshold =>
                 \A j \in 1..Len(review_queue') :
                   review_queue'[j].filename # invoices_data[i].filename
            /\ invoices_data[i].confidence = 20 =>
                 \E j \in 1..Len(review_queue') :
                   review_queue'[j] = invoices_data[i]
       /\ review_queue' # <<>> =>
            review_file' = <<[count |-> Len(review_queue'),
                              invoices |-> review_queue']>>]_vars

\* C16 witness: a finished run with a result that has only the sender
\* (confidence 0.2) in the queue and a result exactly at the threshold
\* outside it.
C16_Witness ==
  /\ e_pc = "done"
  /\ Len(review_queue) = 1
  /\ \E i \in 1..Len(invoices_data) :
       /\ NonNullRequired(invoices_data[i]) = {"sender"}
       /\ invoices_data[i].confidence = 20
       /\ review_queue[1] = invoices_data[i]
  /\ \E i \in 1..Len(invoices_data) :
       invoices_data[i].confidence = threshold

\* C17: a document whose text is absent or shorter than 50 characters after
\* stripping never reaches the provider: no call is issued for it, it has
\* no result, and its one error record differs in its error from the error
\* record of every document whose provider answer failed to parse.
C17_InsufficientTextRejectedEarly ==
  \A i \in 1..Len(doc_text) :
    TextRejected(i) =>
      /\ llm_calls[i] = <<>>
      /\ llm_out[i] = NoOutcome
      /\ ResultsOf(i) = {}
      /\ Cardinality(ErrorsOf(i)) = 1
      /\ \A j \in 1..Len(doc_text) :
           ParseFailed(j) =>
             \A a \in ErrorsOf(i), b \in ErrorsOf(j) :
               e_errors[a].error # e_errors[b].error

\* C17 witness: a document of white space only (long enough before
\* stripping) was rejected and another document's answer failed to parse.
C17_Witness ==
  \E i, j \in 1..Len(doc_text) :
    /\ doc_text[i] = Text(60, 0)
    /\ ErrorsOf(i) # {}
    /\ ParseFailed(j)
    /\ ErrorsOf(j) # {}

\* C18: the provider is called at most once per document; a document whose
\* answer failed to parse has no result and exactly one error record; the
\* stage does not stop on it: a stage past its loop has handled every
\* document, each with either a result or an error record.
C18_ParseFailureIsHardFailure ==
  /\ \A i \in 1..Len(doc_text) :
       /\ Len(llm_calls[i]) <= 1
       /\ ParseFailed(i) =>
            /\ Len(llm_calls[i]) = 1
            /\ ResultsOf(i) = {}
            /\ Cardinality(ErrorsOf(i)) = 1
            /\ e_pc # "error"
  /\ e_pc \in {"save", "done"} =>
       /\ Len(doc_text) = Len(pdf_files)
       /\ \A i \in 1..Len(pdf_files) :
            Cardinality(ResultsOf(i)) + Cardinality(ErrorsOf(i)) = 1

\* C18 witness: a finished run in which the answer for the first document
\* failed to parse and the second document has a result.
C18_Witness ==
  /\ e_pc = "done"
  /\ Len(pdf_files) >= 2
  /\ ParseFailed(1)
  /\ ResultsOf(2) # {}

(***************************************************************************)
(* organize_emails.py                                                      *)
(***************************************************************************)
\* largest len(sys.argv) the orchestration command is started with
MaxArgc == 4

\* main, line 115: len(sys.argv) < 3
MinArgc == 3

\* the scripts main runs, in the order of lines 133-160
STAGES ==
  <<"fetch_emails", "categorize_emails", "process_invoices",
    "manage_client_context", "generate_draft_responses",
    "apply_gmail_labels">>

\* What can happen inside fetch_emails.py: the emails are fetched, the
\* query matches nothing (line 141), the mail provider answers with an
\* HttpError (lines 179-181), or authenticate_gmail raises (line 121).
FetchEvents == {"fetched", "no_messages", "http_error", "auth_error"}

\* fetch_emails.py as a process: fetch_emails returns [] on an HttpError and
\* __main__ (lines 207-208) saves the empty cache; only an exception that
\* leaves the script ends it with a non-zero code.
fetch_emails_exit(ev) == IF ev = "auth_error" THEN 1 ELSE 0

\* What can happen inside categorize_emails.py, started by main without
\* arguments: the batch is categorized, or no OpenAI key is set (line 165).
CategorizeEvents == {"categorized", "no_api_key"}

\* categorize_emails.py as a process
categorize_emails_exit(ev) == IF ev = "no_api_key" THEN 1 ELSE 0

\* the later stages as processes: they end with code 0 or with another code
StageEvents == {"completed", "failed"}
stage_exit(ev) == IF ev = "failed" THEN 1 ELSE 0

\* What can happen inside process_invoices.py: it fails before it saves its
\* logs, or it completes with no invoice email, with a downloaded PDF, or
\* with an invoice that has no PDF (process_invoices.py, lines 153-186).
InvoiceEvents ==
  {"failed", "completed_none", "completed_pdf", "completed_dashboard"}

\* What can happen inside generate_draft_responses.py: it fails before it
\* saves the summary, or it completes with no draft or with one draft for
\* a new client.
DraftEvents == {"failed", "completed_none", "completed_draft"}

\* the artifacts generate_final_report reads, lines 46-69
ARTIFACTS ==
  {"categorization_results", "invoice_log", "dashboard_invoices",
   "draft_responses_summary"}

\* The content of an artifact, as far as the report reads it, and its
\* time stamp where the file has one: "earlier" for a file left by an
\* earlier run, "now" for a file written by this run.
CategorizationResults(n) == [total_emails |-> n]
InvoiceLog(at, n) == [generated_at |-> at, total_invoices |-> n]
DashboardInvoices(at, n) ==
  [generated_at |-> at, total_dashboard_invoices |-> n]
DraftSummary(at, n) ==
  [generated_at |-> at, total_drafts |-> n, new_clients |-> n,
   existing_clients |-> 0]

\* the artifacts an earlier run can have left in .tmp
StaleFiles ==
  [categorization_results  |-> CategorizationResults(5),
   invoice_log             |-> InvoiceLog("earlier", 3),
   dashboard_invoices      |-> DashboardInvoices("earlier", 1),
   draft_responses_summary |-> DraftSummary("earlier", 2)]

\* the states of .tmp a run can start from: any of them present or absent
InitialDisks == {[a \in S |-> StaleFiles[a]] : S \in SUBSET ARTIFACTS}

\* the number of emails fetch_emails.py saves (fetch_emails.py, lines
\* 139-181)
FetchedCount(ev) == IF ev = "fetched" THEN 2 ELSE 0

\* What a stage that ends as ev leaves in .tmp: fetch_emails.py saves the
\* cache (fetch_emails.py, lines 183-194), categorize_emails.py the results
\* (categorize_emails.py, lines 198-213), process_invoices.py the invoice
\* log and, if there is one, the dashboard invoices (process_invoices.py,
\* lines 195-220), generate_draft_responses.py the summary
\* (generate_draft_responses.py, lines 217-249).  A stage that fails has
\* saved nothing; the context and label stages write no file of .tmp that
\* the report reads.
StageWrites(stage, ev, files) ==
  CASE stage = "fetch_emails" /\ fetch_emails_exit(ev) = 0 ->
         SetItem(files, "emails_cache", [count |-> FetchedCount(ev)])
    [] stage = "categorize_emails" /\ ev = "categorized" ->
         SetItem(files, "categorization_results",
                 CategorizationResults(files["emails_cache"].count))
    [] stage = "process_invoices" /\ ev \in {"completed_none", "completed_pdf"} ->
         SetItem(files, "invoice_log",
                 InvoiceLog("now", IF ev = "completed_pdf" THEN 1 ELSE 0))
    [] stage = "process_invoices" /\ ev = "completed_dashboard" ->
         SetItem(SetItem(files, "invoice_log", InvoiceLog("now", 0)),
                 "dashboard_invoices", DashboardInvoices("now", 1))
    [] stage = "generate_draft_responses"
         /\ ev \in {"completed_none", "completed_draft"} ->
         SetItem(files, "draft_responses_summary",
                 DraftSummary("now", IF ev = "completed_draft" THEN 1 ELSE 0))
    [] OTHER -> files

\* a report that fills in zeros for the artifacts that are absent
generate_final_report_defaults(files) ==
  [status |-> "success",
   total_emails |->
     IF "categorization_results" \in DOMAIN files
       THEN files["categorization_results"].total_emails ELSE 0,
   invoices_downloaded |->
     IF "invoice_log" \in DOMAIN files
       THEN files["invoice_log"].total_invoices ELSE 0,
   dashboard_invoices |->
     IF "dashboard_invoices" \in DOMAIN files
       THEN files["dashboard_invoices"].total_dashboard_invoices ELSE 0,
   drafts_generated |->
     IF "draft_responses_summary" \in DOMAIN files
       THEN files["draft_responses_summary"].total_drafts ELSE 0]

\* generate_final_report, lines 38-76: the report holds the status and one
\* section for every artifact that exists (the time of completion is the
\* wall clock; category_counts, new_client_drafts and
\* existing_client_drafts come and go with total_emails and
\* drafts_generated)
generate_final_report(files) ==
  LET r0 == [status |-> "success"]
      r1 == IF "categorization_results" \in DOMAIN files
              THEN SetItem(r0, "total_emails",
                           files["categorization_results"].total_emails)
              ELSE r0
      r2 == IF "invoice_log" \in DOMAIN files
              THEN SetItem(r1, "invoices_downloaded",
                           files["invoice_log"].total_invoices)
              ELSE r1
      r3 == IF "dashboard_invoices" \in DOMAIN files
              THEN SetItem(r2, "dashboard_invoices",
                     files["dashboard_invoices"].total_dashboard_invoices)
              ELSE r2
  IN  IF "draft_responses_summary" \in DOMAIN files
        THEN SetItem(r3, "drafts_generated",
                     files["draft_responses_summary"].total_drafts)
        ELSE r3

\* run_script, lines 16-36
run_script(returncode) == returncode = 0

\* an orchestrator for which the invoice stage is mandatory too
MANDATORY_WITH_INVOICES ==
  {"fetch_emails", "categorize_emails", "process_invoices"}

\* main, lines 134-136 and 140-142: the stages whose failure ends the run
MANDATORY == {"fetch_emails", "categorize_emails"}

InitOrchestrate ==
  /\ IdleStandalone
  /\ IdleFiles
  /\ IdleDrafts
  /\ IdleClassify
  /\ IdleLabel
  /\ IdleContext
  /\ IdleExtract
  /\ o_pc = "start"
  /\ argc \in 1..MaxArgc
  /\ started = <<>>
  /\ stage_event = <<>>
  /\ stage_ok = <<>>
  /\ exit_code = -1
  /\ tmp_files \in InitialDisks
  /\ report = <<>>

\* main, lines 115-119
main_begin ==
  /\ o_pc = "start"
  /\ IF argc < MinArgc
       THEN o_pc' = "exited" /\ exit_code' = 1
       ELSE o_pc' = STAGES[1] /\ UNCHANGED exit_code
  /\ UNCHANGED <<argc, started, stage_event, stage_ok, tmp_files, report,
                 cvars, lvars, xvars, evars, svars, fvars, dvars>>

\* One step of main: stage number k is started, what happens inside it is
\* ev, the process ends with code returncode; main goes on to the next
\* stage, or exits with code 1 when a mandatory stage failed.
RunStage(k, ev, returncode) ==
  LET stage   == STAGES[k]
      success == run_script(returncode)
  IN  /\ o_pc = stage
      /\ started' = Append(started, stage)
      /\ stage_event' = (stage :> ev) @@ stage_event
      /\ stage_ok' = (stage :> success) @@ stage_ok
      /\ tmp_files' = StageWrites(stage, ev, tmp_files)
      /\ IF ~success /\ stage \in MANDATORY
           THEN o_pc' = "exited" /\ exit_code' = 1
           ELSE /\ o_pc' = IF k < Len(STAGES) THEN STAGES[k + 1] ELSE "report"
                /\ UNCHANGED exit_code
      /\ UNCHANGED <<argc, report, cvars, lvars, xvars, evars, svars, fvars, dvars>>

\* main, lines 133-136
main_fetch_emails ==
  \E ev \in FetchEvents : RunStage(1, ev, fetch_emails_exit(ev))

\* main, lines 139-142
main_categorize_emails ==
  \E ev \in CategorizeEvents : RunStage(2, ev, categorize_emails_exit(ev))

\* main, lines 145-147
main_process_invoices ==
  \E ev \in InvoiceEvents : RunStage(3, ev, stage_exit(ev))

\* main, lines 150-152
main_manage_client_context ==
  \E ev \in StageEvents : RunStage(4, ev, stage_exit(ev))

\* main, lines 155-157
main_generate_draft_responses ==
  \E ev \in DraftEvents : RunStage(5, ev, stage_exit(ev))

\* main, lines 160-162
main_apply_gmail_labels ==
  \E ev \in StageEvents : RunStage(6, ev, stage_exit(ev))

\* main, lines 165-166, and generate_final_report, lines 38-76
main_report ==
  /\ o_pc = "report"
  /\ report' = <<generate_final_report(tmp_files)>>
  /\ o_pc' = "done"
  /\ exit_code' = 0
  /\ UNCHANGED <<argc, started, stage_event, stage_ok, tmp_files, cvars,
                 lvars, xvars, evars, svars, fvars, dvars>>

NextOrchestrate ==
  \/ main_begin
  \/ main_fetch_emails
  \/ main_categorize_emails
  \/ main_process_invoices
  \/ main_manage_client_context
  \/ main_generate_draft_responses
  \/ main_apply_gmail_labels
  \/ main_report

SpecOrchestrate == InitOrchestrate /\ [][NextOrchestrate]_vars

\* main is sequential code and subprocess.run returns when the stage's
\* process has ended: a step that can be taken is taken.
SpecOrchestrateFair == SpecOrchestrate /\ WF_vars(NextOrchestrate)

(***************************************************************************)
(* Properties of the orchestrator                                          *)
(***************************************************************************)
LATER_STAGES == SubSeq(STAGES, 3, Len(STAGES))

Started(stage) == \E i \in 1..Len(started) : started[i] = stage

\* the fetch stage failed: the mail provider answered with an error, or the
\* script could not authenticate
FetchFailed ==
  /\ "fetch_emails" \in DOMAIN stage_event
  /\ stage_event["fetch_emails"] \in {"http_error", "auth_error"}

ClassifyFailed ==
  /\ "categorize_emails" \in DOMAIN stage_event
  /\ stage_event["categorize_emails"] = "no_api_key"

\* C19: when the fetch stage or the classify stage has failed, a mail
\* provider error during fetching included, the run has halted: no later
\* stage was started, no report was written, and the command has exited
\* with a non-zero code.
C19_MandatoryFailureHalts ==
  (FetchFailed \/ ClassifyFailed) =>
    /\ \A i \in 1..Len(LATER_STAGES) : ~Started(LATER_STAGES[i])
    /\ report = <<>>
    /\ o_pc = "exited"
    /\ exit_code > 0

FetchAndClassifySucceeded ==
  /\ "fetch_emails" \in DOMAIN stage_ok
  /\ stage_ok["fetch_emails"]
  /\ "categorize_emails" \in DOMAIN stage_ok
  /\ stage_ok["categorize_emails"]

\* C20: once fetch and classify have succeeded, the later stages are
\* started in the order invoices, context, drafts, labels, none twice, the
\* run does not exit before the report, a run that wrote the report started
\* each of them exactly once, and the report is eventually written,
\* whatever the later stages returned.
C20_LaterStagesRunOnceThenReport ==
  /\ [](FetchAndClassifySucceeded =>
          /\ IsPrefix(SubSeq(started, 3, Len(started)), LATER_STAGES)
          /\ o_pc # "exited"
          /\ o_pc = "done" =>
               /\ SubSeq(started, 3, Len(started)) = LATER_STAGES
               /\ report # <<>>)
  /\ (FetchAndClassifySucceeded ~> (o_pc = "done" /\ report # <<>>))

\* C20 witness: a finished run with its report in which a later stage
\* failed and a stage after it succeeded.
C20_Witness ==
  /\ o_pc = "done"
  /\ report # <<>>
  /\ ~stage_ok["process_invoices"]
  /\ ~stage_ok["generate_draft_responses"]
  /\ stage_ok["apply_gmail_labels"]

(***************************************************************************)
(* generate_final_report on any state of .tmp                              *)
(***************************************************************************)
\* the artifacts as this run's stages write them
FreshFiles ==
  [categorization_results  |-> CategorizationResults(2),
   invoice_log             |-> InvoiceLog("now", 1),
   dashboard_invoices      |-> DashboardInvoices("now", 1),
   draft_responses_summary |-> DraftSummary("now", 1)]

\* Every subset of the artifacts present, each of them stale or fresh; the
\* cache of fetched emails is there, as the report follows a fetch.
ReportDisks ==
  UNION {{SetItem([a \in S |-> IF a \in T THEN FreshFiles[a]
                                          ELSE StaleFiles[a]],
                  "emails_cache", [count |-> 2]) : T \in SUBSET S} :
         S \in SUBSET ARTIFACTS}

InitReport ==
  /\ IdleStandalone
  /\ IdleFiles
  /\ IdleDrafts
  /\ IdleClassify
  /\ IdleLabel
  /\ IdleContext
  /\ IdleExtract
  /\ o_pc = "report"
  /\ argc = MinArgc
  /\ started = STAGES
  /\ stage_event = <<>>
  /\ stage_ok = <<>>
  /\ exit_code = -1
  /\ tmp_files \in ReportDisks
  /\ report = <<>>

NextReport == main_report

SpecReport == InitReport /\ [][NextReport]_vars

\* the section of the report that stands for an artifact, and the value the
\* artifact holds for it
SectionOf(a) ==
  CASE a = "categorization_results"  -> "total_emails"
    [] a = "invoice_log"             -> "invoices_downloaded"
    [] a = "dashboard_invoices"      -> "dashboard_invoices"
    [] a = "draft_responses_summary" -> "drafts_generated"
ValueOf(a, files) ==
  CASE a = "categorization_results"  -> files[a].total_emails
    [] a = "invoice_log"             -> files[a].total_invoices
    [] a = "dashboard_invoices"      -> files[a].total_dashboard_invoices
    [] a = "draft_responses_summary" -> files[a].total_drafts

LaterStageFailed ==
  \E i \in 1..Len(LATER_STAGES) :
    /\ LATER_STAGES[i] \in DOMAIN stage_ok
    /\ ~stage_ok[LATER_STAGES[i]]

\* the .tmp directories a run leaves in which every stage succeeded, and
\* the reports of such runs
SuccessDisks ==
  {StageWrites("generate_draft_responses", de,
     StageWrites("process_invoices", ie,
       StageWrites("categorize_emails", "categorized",
         StageWrites("fetch_emails", fe, d)))) :
     d \in InitialDisks, fe \in {"fetched", "no_messages"},
     ie \in InvoiceEvents \ {"failed"}, de \in DraftEvents \ {"failed"}}
SuccessReports == {generate_final_report(f) : f \in SuccessDisks}

\* C21: the report of a finished run in which an invoice, context, draft or
\* label stage failed differs from every report that a run with only
\* successful stages writes.
C21_DegradedRunDistinguishable ==
  (o_pc = "done" /\ LaterStageFailed) => report[1] \notin SuccessReports

\* C22: whatever subset of the four artifacts exists, generate_final_report
\* completes and writes a report: the report has the status and, for each
\* artifact, its section with the artifact's value if and only if the
\* artifact exists; the artifacts are left as they are.
C22_ReportToleratesAbsentArtifacts ==
  [][o_pc = "report" =>
       /\ o_pc' = "done"
       /\ exit_code' = 0
       /\ Len(report') = 1
       /\ report'[1].status = "success"
       /\ tmp_files' = tmp_files
       /\ \A a \in ARTIFACTS :
            /\ SectionOf(a) \in DOMAIN report'[1] <=> a \in DOMAIN tmp_files
            /\ a \in DOMAIN tmp_files =>
                 report'[1][SectionOf(a)] = ValueOf(a, tmp_files)]_vars

\* C22 witness: a report written when only the dashboard invoices existed
C22_Witness ==
  /\ o_pc = "done"
  /\ DOMAIN tmp_files \cap ARTIFACTS = {"dashboard_invoices"}
  /\ DOMAIN report[1] = {"status", "dashboard_invoices"}

(***************************************************************************)
(* Further properties of the context stage                                 *)
(***************************************************************************)
\* an iteration of the loop in which save_context raised: the counter went
\* up and the store stayed as it was
SaveFailedStep ==
  /\ x_pc = "loop"
  /\ x_i <= Len(client_emails)
  /\ contexts_created' + contexts_updated'
       = contexts_created + contexts_updated + 1
  /\ ctx_store' = ctx_store

\* C23: when saving one sender's record fails, the stage goes on with the
\* next client email of the batch.
C23_SaveFailureIsPerItem ==
  [][SaveFailedStep => x_pc' = "loop" /\ x_i' = x_i + 1]_vars

\* the position of an email in a list of emails
PositionIn(list, id) == CHOOSE k \in 1..Len(list) : list[k].id = id

\* the emails the loop iterates are emails of the artifact, in its order
ClientEmailsInArtifactOrder ==
  /\ \A k \in 1..Len(client_emails) :
       \E j \in 1..Len(batch) : batch[j] = client_emails[k]
  /\ \A i, j \in 1..Len(client_emails) :
       i < j => PositionIn(batch, client_emails[i].id)
                  < PositionIn(batch, client_emails[j].id)

\* the store when the current run started
StoreAtRunStart == IF prev_run # <<>> THEN prev_run[1].store ELSE <<>>

\* the communications the current run has appended to a sender's record
AppendedInRun(key) ==
  LET now   == ctx_store[key].communications
      start == IF key \in DOMAIN StoreAtRunStart
                 THEN Len(StoreAtRunStart[key].communications)
                 ELSE 0
  IN  SubSeq(now, start + 1, Len(now))

AppendedInArtifactOrder ==
  x_pc \in {"loop", "done"} =>
    \A key \in DOMAIN ctx_store :
      LET c == AppendedInRun(key)
      IN  \A i, j \in 1..Len(c) :
            i < j => PositionIn(batch, c[i].email_id)
                       <= PositionIn(batch, c[j].email_id)

\* an iteration appends communications of the email it is at, and of no
\* other, to the record of its sender, and leaves the other records alone
AppendsNextEmail ==
  MergeStep =>
    LET before == IF HasContext(ctx_store, NextKey)
                    THEN ctx_store[NextKey].communications
                    ELSE <<>>
        after  == ctx_store'[NextKey].communications
    IN  /\ IsPrefix(before, after)
        /\ Len(after) > Len(before)
        /\ \A k \in (Len(before) + 1)..Len(after) :
             after[k].email_id = NextEmail.id
        /\ \A k \in DOMAIN ctx_store \ {NextKey} :
             ctx_store'[k] = ctx_store[k]

\* C29: within a run the loop goes over the client emails in the order of
\* the classification artifact, one after the other, and the
\* communications the run appends to a sender's record are in that order.
C29_ProcessedInArtifactOrder ==
  /\ [](ClientEmailsInArtifactOrder /\ AppendedInArtifactOrder)
  /\ [][AppendsNextEmail]_vars
  /\ [][x_pc = "loop" /\ x_pc' = "loop" => x_i' = x_i + 1]_vars

\* a second run over a batch with an email of another category has ended
\* and has appended communications of two emails to one record
C29_Witness ==
  /\ x_pc = "done"
  /\ x_run = 2
  /\ \E k \in 1..Len(batch) : batch[k].category = "invoice"
  /\ \E key \in DOMAIN ctx_store :
       Cardinality(EmailIds(AppendedInRun(key))) >= 2

CLIENT_CATEGORIES == {"new_client_inquiry", "existing_client"}

\* every stored record belongs to the sender of a client email, and each
\* of its communications is of a client email of that sender
OnlyClientEmailsStored ==
  \A key \in DOMAIN ctx_store :
    \A k \in 1..Len(ctx_store[key].communications) :
      \E j \in 1..NumCtxEmails :
        /\ Mailbox[j].id = ctx_store[key].communications[k].email_id
        /\ Mailbox[j].category \in CLIENT_CATEGORIES
        /\ extract_sender_email(Mailbox[j].from) = key

\* a run that ended has every client email of its batch in the record of
\* the email's sender
ClientEmailsStored ==
  x_pc = "done" =>
    \A j \in 1..Len(batch) :
      batch[j].category \in CLIENT_CATEGORIES =>
        LET key == extract_sender_email(batch[j].from)
        IN  /\ key \in DOMAIN ctx_store
            /\ batch[j].id \in EmailIds(ctx_store[key].communications)

\* an iteration creates the record of a sender that has none and updates
\* the record of a sender that has one
CreateOrUpdate ==
  MergeStep =>
    /\ NextEmail.category \in CLIENT_CATEGORIES
    /\ DOMAIN ctx_store' = DOMAIN ctx_store \cup {NextKey}
    /\ IF NextKey \in DOMAIN ctx_store
         THEN /\ contexts_updated' = contexts_updated + 1
              /\ contexts_created' = contexts_created
              /\ ctx_store'[NextKey] # ctx_store[NextKey]
              /\ ctx_store'[NextKey].first_contact
                   = ctx_store[NextKey].first_contact
         ELSE /\ contexts_created' = contexts_created + 1
              /\ contexts_updated' = contexts_updated
              /\ ctx_store'[NextKey].first_contact = NextEmail.date
              /\ EmailIds(ctx_store'[NextKey].communications)
                   = {NextEmail.id}

\* C30: a record is created by the iteration over a client email whose
\* sender has none and updated by every iteration over a client email
\* whose sender has one; no step removes a record, no other step changes
\* the store, and no email of another category reaches a record.
C30_ContextLifecycle ==
  /\ [](OnlyClientEmailsStored /\ ClientEmailsStored)
  /\ [][CreateOrUpdate]_vars
  /\ [][DOMAIN ctx_store \subseteq DOMAIN ctx_store']_vars
  /\ [][~MergeStep => ctx_store' = ctx_store]_vars

\* a run over a batch with an invoice has ended; it created the record of
\* the one client and updated it, and the sender of the invoice has none
C30_Witness ==
  /\ x_pc = "done"
  /\ x_run = 1
  /\ Len(batch) = 4
  /\ batch[4].category = "invoice"
  /\ contexts_created = 1
  /\ contexts_updated = 2
  /\ extract_sender_email(batch[4].from) \notin DOMAIN ctx_store

(***************************************************************************)
(* The downstream scripts started on their own                             *)
(***************************************************************************)
\* The operations of each script's __main__ in program order, each with what
\* it touches: "load" reads the classification artifact, "local" touches
\* nothing outside the process, "remote" is a call to the mail provider or
\* the inference provider, "store_write" changes the mail store or the
\* context store, "artifact_write" writes an output artifact.
Op(name, kind) == [name |-> name, kind |-> kind]

SCRIPTS ==
  [apply_gmail_labels |->
     <<Op("load_categorized_emails", "load"),
       Op("get_gmail_service", "local"),
       Op("labels.list", "remote"),
       Op("labels.create", "store_write"),
       Op("messages.modify", "store_write"),
       Op("save_labeling_report", "artifact_write")>>,
   manage_client_context |->
     <<Op("load_categorized_emails", "load"),
       Op("getenv", "local"),
       Op("messages.create", "remote"),
       Op("save_context", "store_write")>>,
   process_invoices |->
     <<Op("load_categorized_emails", "load"),
       Op("get_gmail_service", "local"),
       Op("attachments.get", "remote"),
       Op("download_attachment", "artifact_write"),
       Op("save_invoice_logs", "artifact_write")>>,
   generate_draft_responses |->
     <<Op("load_categorized_emails", "load"),
       Op("getenv", "local"),
       Op("load_client_context", "local"),
       Op("chat.completions.create", "remote"),
       Op("save_draft_responses", "artifact_write")>>]

\* a loader that answers with an empty batch when the artifact is missing
load_categorized_emails_lenient(exists) == "done"

\* load_categorized_emails, lines 19-27 of manage_client_context.py (the
\* other three scripts hold the same function): FileNotFoundError when the
\* artifact does not exist
load_categorized_emails(exists) == IF exists THEN "done" ELSE "raised"

\* What an operation after the load can do: it is performed, it is not
\* reached (a loop over no email, a branch not taken), or it raises an
\* exception that leaves the script.
OpOutcomes(op) ==
  IF op.kind = "local" THEN {"done", "raised"}
  ELSE {"done", "skipped", "raised"}

InitStandalone ==
  /\ IdleFiles
  /\ IdleDrafts
  /\ IdleClassify
  /\ IdleLabel
  /\ IdleContext
  /\ IdleExtract
  /\ IdleOrchestrate
  /\ s_script \in DOMAIN SCRIPTS
  /\ s_results_exist \in BOOLEAN
  /\ s_pos = 1
  /\ s_effects = <<>>
  /\ s_exit = -1

\* __main__, first statement: emails = load_categorized_emails()
script_load ==
  /\ s_exit = -1
  /\ s_pos = 1
  /\ IF load_categorized_emails(s_results_exist) = "raised"
       THEN s_exit' = 1 /\ UNCHANGED s_pos
       ELSE s_pos' = 2 /\ UNCHANGED s_exit
  /\ UNCHANGED <<s_script, s_results_exist, s_effects, cvars, lvars, xvars,
                 evars, ovars, fvars, dvars>>

\* the next operation of the script after the load
script_step ==
  /\ s_exit = -1
  /\ s_pos > 1
  /\ s_pos <= Len(SCRIPTS[s_script])
  /\ LET op == SCRIPTS[s_script][s_pos]
     IN  \E outcome \in OpOutcomes(op) :
           /\ s_effects' = IF outcome = "done" THEN Append(s_effects, op)
                                               ELSE s_effects
           /\ IF outcome = "raised"
                THEN s_exit' = 1 /\ UNCHANGED s_pos
                ELSE s_pos' = s_pos + 1 /\ UNCHANGED s_exit
  /\ UNCHANGED <<s_script, s_results_exist, cvars, lvars, xvars, evars,
                 ovars, fvars, dvars>>

\* the script reaches its end
script_exit ==
  /\ s_exit = -1
  /\ s_pos > Len(SCRIPTS[s_script])
  /\ s_exit' = 0
  /\ UNCHANGED <<s_script, s_results_exist, s_pos, s_effects, cvars, lvars,
                 xvars, evars, ovars, fvars, dvars>>

NextStandalone ==
  \/ script_load
  \/ script_step
  \/ script_exit

SpecStandalone == InitStandalone /\ [][NextStandalone]_vars

\* C24: a downstream script started without the classification artifact
\* ends with a non-zero exit code at its first statement: once it has taken
\* a step it has exited with a failure, and it has made no remote call and
\* no write to the mail store, the context store or an output artifact.
C24_MissingArtifactAbortsStage ==
  [][~s_results_exist =>
       /\ s_exit' > 0
       /\ s_pos' = 1
       /\ \A i \in 1..Len(s_effects') :
            s_effects'[i].kind
              \notin {"remote", "store_write", "artifact_write"}]_vars

\* C24 witness: the context script has failed for want of the artifact
C24_Witness ==
  /\ s_script = "manage_client_context"
  /\ ~s_results_exist
  /\ s_exit = 1
  /\ s_effects = <<>>

(***************************************************************************)
(* Further properties of the labeling stage                                *)
(***************************************************************************)

\* a summary that counts every modify call as an applied label
summary_of_all_calls ==
  [total_processed |-> Len(artifact),
   labels_applied  |-> Len(modify_calls),
   errors          |-> Len(l_errors),
   by_category     |-> label_counts]

\* apply_gmail_labels, lines 161-166: the summary the stage reports
summary ==
  [total_processed |-> Len(artifact),
   labels_applied  |-> SumOver(label_counts, DOMAIN label_counts),
   errors          |-> Len(l_errors),
   by_category     |-> label_counts]

\* the three outcomes of an email in a run
Applied(email) ==
  \E k \in 1..Len(modify_calls) :
    modify_calls[k].email_id = email.id /\ modify_calls[k].ok
Skipped(email) == HasAssistantLabel(email.labelIds)
Errored(email) ==
  \E k \in 1..Len(l_errors) : l_errors[k].email_id = email.id

SkippedCount ==
  Cardinality({k \in 1..Len(artifact) : Skipped(artifact[k])})

\* C25: when a run of the label stage has ended, every email of the batch
\* is exactly one of applied, skipped or error, and the report's total is
\* the sum of the three counts, also when the label id of the email's
\* category could not be obtained.
C25_EveryEmailAccounted ==
  l_pc = "done" =>
    /\ \A k \in 1..Len(artifact) :
         LET email == artifact[k]
         IN  Cardinality({o \in {"applied", "skipped", "error"} :
                            \/ o = "applied" /\ Applied(email)
                            \/ o = "skipped" /\ Skipped(email)
                            \/ o = "error" /\ Errored(email)}) = 1
    /\ summary.total_processed =
         summary.labels_applied + summary.errors + SkippedCount

\* the lookups of a run: one for each category, none in the email loop
OneLookupPerCategory ==
  l_pc \in {"loop", "done"} =>
    /\ Len(label_calls) = Cardinality(CATEGORIES)
    /\ \A c \in CATEGORIES :
         Cardinality({k \in 1..Len(label_calls) :
                        label_calls[k].category = c}) = 1

AtMostOneLabelPerPath ==
  \A c \in CATEGORIES : store_label_count[c] <= 1

\* a lookup creates a label only for a path the store does not hold
CreatesOnlyAbsent ==
  label_calls' # label_calls =>
    \A k \in 1..Len(label_calls') :
      label_calls'[k].created =>
        label_calls'[k].label_path \notin store_labels

\* C26: within a run the label of each category is looked up exactly
\* once, no lookup happens in the email loop, a label is created only for
\* a path the store does not hold, and the store never holds two labels
\* of one path.
C26_LookupOncePerCategory ==
  /\ [](OneLookupPerCategory /\ AtMostOneLabelPerPath)
  /\ [][(l_pc = "loop" => label_calls' = label_calls)
        /\ CreatesOnlyAbsent]_vars

\* a second run has ended that found every label of the first run
C26_Witness ==
  /\ run = 2
  /\ l_pc = "done"
  /\ \A c \in CATEGORIES : store_label_count[c] = 1
  /\ \A k \in 1..Len(label_calls) : ~label_calls[k].created

ModifyCallsOf(m) ==
  {k \in 1..Len(modify_calls) : modify_calls[k].email_id = m}

FailedCallsOf(m) == {k \in ModifyCallsOf(m) : ~modify_calls[k].ok}

ErrorRecordsOf(m) == {k \in 1..Len(l_errors) : l_errors[k].email_id = m}

CONTEXT_KEYS ==
  <<"client_email", "client_name", "first_contact", "last_contact",
    "project_summary", "inquiry_type", "status", "communications",
    "action_items">>

\* the path of the file of a sender, lines 46-47 and 245-246
context_file(sender_email) ==
  <<"client_contexts", sender_email, "context.json">>

\* json.dump of a dict, line 251: the text of the file is the members of
\* the object, key and value, in the order of the dict
json_dump(context) ==
  LET keys == SelectSeq(CONTEXT_KEYS, LAMBDA k : k \in DOMAIN context)
  IN  [i \in 1..Len(keys) |-> <<keys[i], context[keys[i]]>>]

\* json.load of an object, line 51: a dict of the members, the last member
\* of a key giving its value
json_load(text) ==
  [key \in {text[i][1] : i \in 1..Len(text)} |->
     LET last == CHOOSE i \in 1..Len(text) :
                   /\ text[i][1] = key
                   /\ \A j \in (i + 1)..Len(text) : text[j][1] # key
     IN  text[last][2]]

\* load_context, lines 44-53: the record read from the sender's file, None
\* when there is no file
load_context(files, sender_email) ==
  IF context_file(sender_email) \in DOMAIN files
    THEN json_load(files[context_file(sender_email)])
    ELSE None

\* a save that leaves the file of a sender alone when there is one
save_context_file_keep_existing(files, context) ==
  LET path == context_file(context.client_email)
  IN  [f \in DOMAIN files \cup {path} |->
         IF f \in DOMAIN files THEN files[f] ELSE json_dump(context)]

\* save_context, lines 242-251, on the files: the sender's file is opened
\* with mode 'w' and holds the text of the new record alone
save_context_file(files, context) ==
  LET path == context_file(context.client_email)
  IN  [f \in DOMAIN files \cup {path} |->
         IF f = path THEN json_dump(context) ELSE files[f]]

\* the client emails of the mailbox
ClientMailbox ==
  {Mailbox[k] : k \in {j \in 1..NumCtxEmails : IsClientEmail(Mailbox[j])}}

\* the records the stage hands to save_context: those create_new_context
\* returns, and those update_existing_context makes of them
CreatedContexts ==
  {create_new_context(e, out) : e \in ClientMailbox, out \in CreateOutcomes}

UpdatedContexts ==
  UNION {{update_existing_context(c, e, out) :
            e \in {m \in ClientMailbox :
                     extract_sender_email(m.from) = c.client_email},
            out \in UpdateOutcomes} :
         c \in CreatedContexts}

ContextRecords == CreatedContexts \cup UpdatedContexts

InitStore ==
  /\ IdleClassify
  /\ IdleLabel
  /\ IdleContext
  /\ IdleExtract
  /\ IdleOrchestrate
  /\ IdleStandalone
  /\ IdleDrafts
  /\ ctx_files = <<>>
  /\ f_saved = <<>>
  /\ f_loaded = <<>>

\* a call of save_context, line 296
store_save_context ==
  /\ \E context \in ContextRecords :
       /\ ctx_files' = save_context_file(ctx_files, context)
       /\ f_saved' =
            <<[context |-> context,
               replaced |->
                 LET path == context_file(context.client_email)
                 IN  /\ path \in DOMAIN ctx_files
                     /\ ctx_files[path] # json_dump(context)]>>
  /\ f_loaded' = <<>>
  /\ UNCHANGED <<cvars, lvars, xvars, evars, ovars, svars, dvars>>

\* a call of load_context, line 284, for the sender of the record saved
\* last
store_load_context ==
  /\ f_saved # <<>>
  /\ f_loaded = <<>>
  /\ f_loaded' = <<load_context(ctx_files, f_saved[1].context.client_email)>>
  /\ UNCHANGED <<ctx_files, f_saved, cvars, lvars, xvars, evars, ovars,
                 svars, dvars>>

NextStore ==
  \/ store_save_context
  \/ store_load_context

SpecStore == InitStore /\ [][NextStore]_vars

\* C28: load_context of the key of a record, right after save_context of
\* the record, gives a record equal to it, whatever the file of the key
\* held before.
C28_SaveLoadRoundTrip ==
  f_loaded # <<>> => f_loaded[1] = f_saved[1].context

\* a record was saved over the different record of the same sender and
\* read back
C28_Witness ==
  /\ f_loaded # <<>>
  /\ f_saved[1].replaced
  /\ Len(f_saved[1].context.communications) >= 2

(***************************************************************************)
(* Further properties of the classifier                                    *)
(***************************************************************************)
\* the classified email is the email of the batch with a category added
SameButCategory(out, in) ==
  /\ DOMAIN out = DOMAIN in \cup {"category"}
  /\ \A field \in DOMAIN in : out[field] = in[field]

\* C31: the list categorize_emails builds holds the emails of the batch in
\* their order, each with its fields as they were and a category added;
\* when the function returns it holds every email of the batch once.
C31_OnlyCategoryAdded ==
  /\ Len(categorized) = c_i - 1
  /\ \A k \in 1..Len(categorized) : SameButCategory(categorized[k], emails[k])
  /\ c_pc = "done" => Len(categorized) = NumEmails

\* the function returned after an email went to the last resort and an
\* email was classified by a provider
C31_Witness ==
  /\ c_pc = "done"
  /\ \E i \in Classified : primary_out[i].kind # "ok"
  /\ \E i \in Classified : categorized[i].category = "invoice"

(***************************************************************************)
(* Properties of the records of the context stage                          *)
(***************************************************************************)
\* an iteration of the loop that creates the record of a sender
CreateStep == MergeStep /\ ~HasContext(ctx_store, NextKey)

\* C32: the record an iteration creates has one communication, of the
\* email of the iteration, one pending action item, status active, and
\* first_contact and last_contact equal to the date of the email, whether
\* the provider answered or failed.
C32_NewContextShape ==
  [][CreateStep =>
       LET c == ctx_store'[NextKey]
       IN  /\ Len(c.communications) = 1
           /\ c.communications[1].email_id = NextEmail.id
           /\ Len(c.action_items) = 1
           /\ c.action_items[1].status = "pending"
           /\ c.status = "active"
           /\ c.first_contact = NextEmail.date
           /\ c.last_contact = NextEmail.date]_vars

\* a record has just been created on the failure path of the provider
C32_Witness ==
  /\ x_pc = "loop"
  /\ x_run = 1
  /\ x_i = 2
  /\ last_out.kind = "exception"
  /\ Len(ctx_store[extract_sender_email(client_emails[1].from)]
           .communications) = 1

(***************************************************************************)
(* manage_client_context.py: a batch of one address under several From     *)
(* fields                                                                  *)
(***************************************************************************)
\* From fields of the address a@x.com: with and without display name, with
\* another display name, padded and in upper case, and with a display name
\* that holds an address in angle brackets
SenderVariants ==
  {FromField("Alice", "a@x.com", FALSE, FALSE, TRUE),
   FromField("", "a@x.com", FALSE, FALSE, FALSE),
   FromField("Bob", "a@x.com", FALSE, FALSE, TRUE),
   FromField("ALICE", "a@x.com", TRUE, TRUE, TRUE),
   FromField("", "a@x.com", TRUE, TRUE, FALSE),
   FromField("Billing <billing@acme.com>", "a@x.com", FALSE, FALSE, TRUE)}

\* the loop of manage_client_contexts (lines 279-297) is entered with two
\* client emails of the address and an empty store
InitSenders ==
  /\ IdleStandalone
  /\ IdleFiles
  /\ IdleDrafts
  /\ IdleClassifyLocals
  /\ anthropic_key = TRUE
  /\ IdleLabel
  /\ IdleExtract
  /\ IdleOrchestrate
  /\ ctx_store = <<>>
  /\ \E f1 \in SenderVariants, f2 \in SenderVariants :
       batch = <<[id |-> 1, date |-> 1, subject |-> "Quote",
                  category |-> "new_client_inquiry", from |-> f1],
                 [id |-> 2, date |-> 2, subject |-> "Re: Quote",
                  category |-> "existing_client", from |-> f2]>>
  /\ client_emails = filter_client_emails(batch)
  /\ x_pc = "loop"
  /\ x_i = 1
  /\ x_run = 1
  /\ contexts_created = 0
  /\ contexts_updated = 0
  /\ merges = 0
  /\ prev_run = <<>>
  /\ last_out = NoOutcome

NextSenders ==
  \/ manage_client_contexts_step
  \/ manage_client_contexts_return

SpecSenders == InitSenders /\ [][NextSenders]_vars

\* the two From fields are of one address: they differ in display name,
\* whitespace around the address and letter case of the address only
SameAddress(f1, f2) == f1.addr.core = f2.addr.core

\* C33: two From fields that differ only in display name, surrounding
\* whitespace or letter case of the address have the same store key, and
\* a run over an email of each leaves one record that holds both emails.
C33_SenderKeyNormalized ==
  LET f1 == batch[1].from
      f2 == batch[2].from
  IN  (x_pc = "done" /\ SameAddress(f1, f2)) =>
        /\ extract_sender_email(f1) = extract_sender_email(f2)
        /\ Cardinality(DOMAIN ctx_store) = 1
        /\ contexts_created = 1
        /\ contexts_updated = 1

\* the record of a key names the key
KeyIsClientEmail ==
  \A k \in DOMAIN ctx_store : ctx_store[k].client_email = k

\* an iteration writes the record of the key it loaded and no other
SavedUnderLoadedKey ==
  MergeStep =>
    /\ NextKey \in DOMAIN ctx_store'
    /\ ctx_store'[NextKey].client_email = NextKey
    /\ \A k \in DOMAIN ctx_store \ {NextKey} :
         k \in DOMAIN ctx_store' /\ ctx_store'[k] = ctx_store[k]

\* C34: the record stored under a key has the key for client_email, and
\* an iteration saves the record under the key it loaded it by, leaving
\* the records of other keys as they were.
C34_StoreKeyInvariant ==
  /\ []KeyIsClientEmail
  /\ [][SavedUnderLoadedKey]_vars

\* a run has ended that left records under two keys
C34_Witness ==
  /\ x_pc = "done"
  /\ Cardinality(DOMAIN ctx_store) = 2

\* C35: no step changes first_contact, client_name or status of a stored
\* record.
C35_FirstContactWriteOnce ==
  [][\A k \in DOMAIN ctx_store :
       /\ k \in DOMAIN ctx_store'
       /\ ctx_store'[k].first_contact = ctx_store[k].first_contact
       /\ ctx_store'[k].client_name = ctx_store[k].client_name
       /\ ctx_store'[k].status = ctx_store[k].status]_vars

\* a record was updated with an email of another date and another display
\* name than the email that created it
C35_Witness ==
  \E k \in DOMAIN ctx_store :
    /\ Len(ctx_store[k].communications) >= 2
    /\ ctx_store[k].last_contact # ctx_store[k].first_contact
    /\ \E j \in 1..Len(batch) :
         /\ batch[j].id \in EmailIds(ctx_store[k].communications)
         /\ extract_sender_name(batch[j].from) # ctx_store[k].client_name

C37_EmptyDirectoryCompletes ==
  (e_api_key /\ Len(pdf_files) = 0) =>
    /\ e_pc # "error"
    /\ full_pc # "failed"
    /\ e_pc = "done" => (invoices_data = <<>> /\ e_errors = <<>>)

(***************************************************************************)
(* The report and the artifacts of the run                                 *)
(***************************************************************************)
\* artifact a was written by a stage of this run
WrittenThisRun(a) ==
  CASE a = "categorization_results" ->
         /\ "categorize_emails" \in DOMAIN stage_event
         /\ stage_event["categorize_emails"] = "categorized"
    [] a = "invoice_log" ->
         /\ "process_invoices" \in DOMAIN stage_event
         /\ stage_event["process_invoices"] # "failed"
    [] a = "dashboard_invoices" ->
         /\ "process_invoices" \in DOMAIN stage_event
         /\ stage_event["process_invoices"] = "completed_dashboard"
    [] a = "draft_responses_summary" ->
         /\ "generate_draft_responses" \in DOMAIN stage_event
         /\ stage_event["generate_draft_responses"] # "failed"

\* C38: every figure of the final report comes from an artifact that a
\* stage of this run wrote: the report of a finished run has the section of
\* an artifact only if the artifact was written in this run, so that a
\* stage that failed or wrote nothing is not reported with the figures of
\* an earlier run.
C38_ReportIsFresh ==
  o_pc = "done" =>
    \A a \in ARTIFACTS :
      SectionOf(a) \in DOMAIN report[1] => WrittenThisRun(a)

(***************************************************************************)
(* generate_draft_responses.py after manage_client_context.py              *)
(***************************************************************************)
\* an extraction that keeps the case of the address
extract_sender_email_of_drafts_cased(from_field) ==
  IF from_field.bracket /\ DisplayAddr(from_field.display) # <<>>
    THEN strip(DisplayAddr(from_field.display)[1])
    ELSE strip(from_field.addr)

\* generate_draft_responses.py, extract_sender_email, lines 30-36: the
\* script's own copy of the function of manage_client_context.py
extract_sender_email_of_drafts(from_field) ==
  IF from_field.bracket /\ DisplayAddr(from_field.display) # <<>>
    THEN lower(strip(DisplayAddr(from_field.display)[1]))
    ELSE lower(strip(from_field.addr))

\* generate_draft_responses.py, load_client_context, lines 38-47: the
\* record of the sender's file as a one-element sequence, <<>> for None
load_client_context(store, sender_email) ==
  IF HasContext(store, sender_email) THEN <<store[sender_email]>> ELSE <<>>

\* generate_draft_responses, lines 165-168
emails_requiring_drafts(all_emails) ==
  SelectSeq(all_emails,
            LAMBDA e : e.category \in {"new_client_inquiry",
                                       "existing_client"})

\* the record the context stage of an earlier run left for the first sender
EarlierStore ==
  save_context(<<>>, create_new_context(Mailbox[1], [kind |-> "exception"]))

\* One orchestrated run: the context store is empty or holds the record of
\* an earlier run, the context stage has one run ahead of it, and the draft
\* stage has not started.
InitDrafts ==
  /\ IdleStandalone
  /\ IdleFiles
  /\ IdleClassifyLocals
  /\ anthropic_key \in BOOLEAN
  /\ IdleLabel
  /\ IdleExtract
  /\ IdleOrchestrate
  /\ ctx_store \in {<<>>, EarlierStore}
  /\ client_emails = <<>>
  /\ batch = <<>>
  /\ x_pc = "idle"
  /\ x_i = 1
  /\ x_run = MaxRuns - 1
  /\ contexts_created = 0
  /\ contexts_updated = 0
  /\ merges = 0
  /\ prev_run = <<>>
  /\ last_out = NoOutcome
  /\ d_pc = "idle"
  /\ d_openai_key \in BOOLEAN
  /\ d_client_emails = <<>>
  /\ d_i = 1
  /\ drafts = <<>>
  /\ d_warnings = <<>>

\* organize_emails.py, main, lines 149-152: the context stage is run, and
\* run_script waits for it, before the draft stage is started
run_manage_client_context ==
  /\ d_pc = "idle"
  /\ NextContext

\* organize_emails.py, main, lines 154-157, and generate_draft_responses,
\* lines 160-172: the draft stage starts when the context stage has ended,
\* or without a context stage before it, reads the artifact and filters the
\* emails that need a draft
generate_draft_responses_begin ==
  /\ d_pc = "idle"
  /\ x_pc \in {"idle", "done", "error"}
  /\ \E n \in 1..NumCtxEmails :
       LET all_emails == IF x_pc = "idle" THEN SubSeq(Mailbox, 1, n)
                         ELSE batch
       IN  d_client_emails' =
             IF d_openai_key THEN emails_requiring_drafts(all_emails)
             ELSE <<>>
  /\ d_pc' = IF d_openai_key THEN "loop" ELSE "error"
  /\ d_i' = 1
  /\ drafts' = <<>>
  /\ d_warnings' = <<>>
  /\ UNCHANGED <<d_openai_key, cvars, lvars, xvars, evars, ovars, svars,
                 fvars>>

\* generate_draft_responses, lines 175-213: one iteration of the loop; the
\* provider returns a response body or the response function returns None
generate_draft_responses_step ==
  /\ d_pc = "loop"
  /\ d_i <= Len(d_client_emails)
  /\ \E response_body \in BOOLEAN :
       LET email == d_client_emails[d_i]
           sender_email == extract_sender_email_of_drafts(email.from)
           by_category == email.category = "new_client_inquiry"
           context == IF by_category THEN <<>>
                      ELSE load_client_context(ctx_store, sender_email)
           no_context == ~by_category /\ context = <<>>
       IN  /\ d_warnings' = IF no_context THEN Append(d_warnings, email.id)
                            ELSE d_warnings
           /\ drafts' =
                IF response_body
                  THEN Append(drafts,
                         [email_id |-> email.id,
                          sender_email |-> sender_email,
                          category |-> email.category,
                          is_new_client |-> by_category \/ no_context,
                          has_context |-> context # <<>>])
                  ELSE drafts
  /\ d_i' = d_i + 1
  /\ UNCHANGED <<d_pc, d_openai_key, d_client_emails, cvars, lvars, xvars,
                 evars, ovars, svars, fvars>>

\* generate_draft_responses, line 215
generate_draft_responses_return ==
  /\ d_pc = "loop"
  /\ d_i > Len(d_client_emails)
  /\ d_pc' = "done"
  /\ UNCHANGED <<d_openai_key, d_client_emails, d_i, drafts, d_warnings,
                 cvars, lvars, xvars, evars, ovars, svars, fvars>>

NextDrafts ==
  \/ run_manage_client_context
  \/ generate_draft_responses_begin
  \/ generate_draft_responses_step
  \/ generate_draft_responses_return

SpecDrafts == InitDrafts /\ [][NextDrafts]_vars

\* C39: the draft stage runs only when the context stage is not running;
\* after a context stage that succeeded every draft for an existing_client
\* email has has_context true and no email was treated as a new client for
\* want of a record; that branch is taken only after a context stage that
\* failed or without a context stage.
C39_ContextBeforeDrafts ==
  /\ d_pc # "idle" => x_pc \in {"idle", "done", "error"}
  /\ x_pc = "done" =>
       /\ d_warnings = <<>>
       /\ \A k \in 1..Len(drafts) :
            drafts[k].category = "existing_client" =>
              drafts[k].has_context /\ ~drafts[k].is_new_client
  /\ d_warnings # <<>> => x_pc \in {"idle", "error"}

\* C39 witness: after a context stage that succeeded on an empty store the
\* draft stage has finished with a draft for the existing_client email
\* whose From field is upper-case and padded, with its context.
C39_Witness ==
  /\ x_pc = "done"
  /\ d_pc = "done"
  /\ \E k \in 1..Len(drafts) :
       /\ drafts[k].email_id = 3
       /\ drafts[k].category = "existing_client"
       /\ drafts[k].has_context
  /\ contexts_created = 1

(***************************************************************************)
(* The counters of the label report                                        *)
(***************************************************************************)
\* the modify calls of this run that succeeded, and those that failed
SucceededCalls == {k \in 1..Len(modify_calls) : modify_calls[k].ok}
FailedCalls == {k \in 1..Len(modify_calls) : ~modify_calls[k].ok}

\* the category of the email a modify call was made for
CallCategory(k) ==
  CategoryOf(CHOOSE e \in {artifact[j] : j \in 1..Len(artifact)} :
               e.id = modify_calls[k].email_id)

\* C40: at the end of apply_gmail_labels by_category has an entry for
\* every category of the label map, each entry is the number of modify
\* calls of this run that succeeded for an email of that category,
\* labels_applied is the sum of by_category and the number of modify calls
\* of this run that succeeded, and errors is the number that failed.
C40_LabelReportCounters ==
  l_pc = "done" =>
    /\ DOMAIN summary.by_category = DOMAIN LABEL_MAP
    /\ DOMAIN summary.by_category
         = {LABEL_MAP_KEYS[k] : k \in 1..Len(LABEL_MAP_KEYS)}
    /\ \A c \in DOMAIN LABEL_MAP :
         summary.by_category[c]
           = Cardinality({k \in SucceededCalls : CallCategory(k) = c})
    /\ summary.labels_applied
         = SumOver(summary.by_category, DOMAIN LABEL_MAP)
    /\ summary.labels_applied = Cardinality(SucceededCalls)
    /\ summary.errors = Cardinality(FailedCalls)

\* C40 witness: the second run of the stage has ended with one modify call
\* that succeeded and one that failed.
C40_Witness ==
  /\ l_pc = "done"
  /\ run = 2
  /\ Cardinality(SucceededCalls) = 1
  /\ Cardinality(FailedCalls) = 1

====
